---- MODULE Spec2Model ----
(***************************************************************************)
(* Model of the ledger's task-reconciliation engine (app/tasks_engine.py)  *)
(* over the SQLite record store (app/storage.py).                          *)
(*                                                                         *)
(* Strings that the code takes apart are modelled by what the code reads   *)
(* from them:                                                              *)
(*   - a unique_key f"{kind}:{id}" is the pair <<kind, id>>; SQL NULL is    *)
(*     NullKey and the empty string is EmptyKey;                           *)
(*   - a viewing's start_at text is [fmt, t]: the format it is written in  *)
(*     and the instant (in seconds) it denotes;                            *)
(*   - a title is [tag, hint, missing, at]: the bracketed label, the       *)
(*     entity's name hint, the missing-field list and the formatted time;  *)
(*   - Korean literals are written in romanised form, the original in a    *)
(*     comment next to the definition.                                     *)
(* created_at / updated_at columns are not modelled.                       *)
(***************************************************************************)
EXTENDS Integers, Sequences, FiniteSets, TLC

VARIABLES
    properties,   \* table properties: set of rows
    photos,       \* table photos: set of rows [id, property_id]
    viewings,     \* table viewings: set of rows
    tasks,        \* table tasks: set of rows
    nextId,       \* AUTOINCREMENT counters of the four tables
    now,          \* wall clock, in seconds
    lastRet,      \* outcome of reconcile_auto_tasks when it was the latest call
    runs,         \* fault-free calls in a row with no write in between (<= 2)
    armed,        \* id of the OPEN photo task of the property add_photo just
                  \* gave its first photo (0 when the latest call was not that)
    upsertHit,    \* id of the row the latest upsert_task_unique call found
                  \* under its key, as its audit row's before_json records it
                  \* (0: it found none, or the latest call was no upsert)
    passes,       \* concurrent passes: each handler thread's local state
    desiredOut,   \* evaluator harness: result of compute_desired_auto_tasks
    customers,    \* rows of table customer_requests
    response,     \* the latest response an API handler sent
    matching,     \* matcher harness: the inputs and result of match_properties
    money,        \* money_utils harness: the input and results of a conversion
    exported,     \* sheet_sync harness: the rows given to _anonymize_rows and its result
    listCall,     \* the latest storage.list_tasks call of an API handler and its response
    sync,         \* desktop window: the timers, the flag and the threads of the export
    window,       \* desktop window: the undo slot and the handler that ran last
    audit         \* the audit_log row the latest store write of the audit harness wrote

vars == <<properties, photos, viewings, tasks, nextId, now, lastRet, runs,
          armed, upsertHit, passes, desiredOut, customers, response, matching,
          money,
          exported,
          listCall,
          sync,
          window,
          audit>>

\* the variables of the harnesses and of the desktop window that the store
\* operations and the API handlers leave alone
others == <<money, exported, listCall, sync, window, audit>>

----------------------------------------------------------------------------
(* Bounds of the model *)

\* rows ever inserted into the four tables together; ticks of the clock
MaxRows == 4
MaxTicks == 1
\* candidate rows handed to the matcher in one call
MaxCandidates == 2
\* the largest small amount converted, and the width of the window of
\* amounts from 2^53 on
MaxAmount == 40
\* customers registered through the API, and rows the API's handlers insert
MaxCustomers == 1
MaxApiRows == 3

(* Program constants *)

\* timedelta(hours=1), in seconds
OverdueGrace == 3600
\* timedelta(hours=24), in seconds
PrepWindow == 86400
\* seconds per minute, the resolution of "%Y-%m-%d %H:%M"
Minute == 60
\* match_properties(..., limit: int = 30)
DefaultLimit == 30

\* the instant the clock starts at (a whole minute), and the clock's step
T0 == 10 * PrepWindow
TickStep == OverdueGrace

----------------------------------------------------------------------------
(* Keys, kinds and statuses *)

NullKey == <<"NULL", 0>>
EmptyKey == <<"", 0>>
ManualKey == <<"K", 1>>

\* Python truthiness of a unique_key value: None and "" are falsy
Truthy(key) == key # NullKey /\ key # EmptyKey

\* str.startswith("AUTO_")
HasAutoPrefix(kind) ==
    kind \in {"AUTO_PROP_INFO", "AUTO_PROP_PHOTO", "AUTO_VIEWING_OVERDUE",
              "AUTO_VIEWING_PREP", "AUTO_VIEWING_RESULT"}

\* SQL: kind LIKE 'AUTO_%'. LIKE is case-insensitive and '_' matches any one
\* character, so "AUTOMATIC" matches too; "MANUAL" and "AUTO" do not.
LikeAutoAll(kind) == TRUE
LikeAuto(kind) == HasAutoPrefix(kind) \/ kind = "AUTOMATIC"

\* tabs with a structured unit master:
\* "봉담자이 프라이드시티", "힐스테이트봉담프라이드시티"
StructuredTabs == {"Bongdam Xi Pride City", "Hillstate Bongdam Pride City"}

\* TAB_COMPLEX_NAME.get(tab, "")
TabComplexName(tab) == IF tab \in StructuredTabs THEN tab ELSE ""

\* property statuses: "신규등록", "계약완료" (PROPERTY_STATUS_VALUES) and the
\* legacy values "거래완료", "사진필요" that init_db rewrites
StatusNew == "singyu-deungnok"
StatusContractDone == "gyeyak-wanryo"
LegacyDealDone == "georae-wanryo"
LegacyNeedsPhoto == "sajin-pillyo"

\* viewing statuses: "예정" (scheduled), "완료" (done)
Scheduled == "yejeong"
Done == "wanryo"

\* str.strip() on the texts the model draws from
Strip(s) ==
    CASE s = " " -> ""
      [] s = " yejeong " -> "yejeong"
      [] s = " wolse" -> "wolse"
      [] s = " jeonse " -> "jeonse"
      [] OTHER -> s

----------------------------------------------------------------------------
(* Datetime text *)

NoTime == 0 - 1

\* _parse_dt: None for empty or unparseable text, a naive datetime for the
\* local and ISO formats, an offset-aware datetime for ISO text with an offset
parse_dt(text) ==
    IF text.fmt \in {"empty", "junk"}
    THEN [ok |-> FALSE, aware |-> FALSE, t |-> NoTime]
    ELSE [ok |-> TRUE, aware |-> (text.fmt = "iso_tz"), t |-> text.t]

\* _fmt_local: "%Y-%m-%d %H:%M" drops the seconds
fmt_local(t) == t - (t % Minute)

----------------------------------------------------------------------------
(* Rule evaluator: compute_desired_auto_tasks *)

NoArea == <<>>

\* photo_count.get(pid, 0)
photo_count(photoRows, pid) ==
    Cardinality({ph \in photoRows : ph.property_id = pid})

\* name_hint: the non-blank parts joined, or "물건 {pid}"
name_hint(p) ==
    LET parts == SelectSeq(<<Strip(p.complex_name), Strip(p.address_detail),
                             Strip(p.unit_type)>>, LAMBDA x : x # "")
    IN  IF parts = <<>> THEN <<"property", ToString(p.id)>> ELSE parts

\* the missing list: "동/호", "면적", "타입", "층"
missing(p) ==
    (IF Strip(p.address_detail) = "" THEN <<"dong/ho">> ELSE <<>>)
    \o (IF p.area = NoArea THEN <<"area">> ELSE <<>>)
    \o (IF Strip(p.unit_type) = "" /\ p.tab \in StructuredTabs
        THEN <<"type">> ELSE <<>>)
    \o (IF Strip(p.floor) = "" THEN <<"floor">> ELSE <<>>)

DesiredTask(key, kind, etype, eid, title, due, note) ==
    [unique_key |-> key, kind |-> kind, entity_type |-> etype,
     entity_id |-> eid, title |-> title, due_at |-> due, note |-> note,
     status |-> "OPEN"]

PropInfoTask(p) ==
    DesiredTask(<<"AUTO_PROP_INFO", p.id>>, "AUTO_PROP_INFO", "PROPERTY", p.id,
                [tag |-> "info", hint |-> name_hint(p), missing |-> missing(p),
                 at |-> NoTime],
                NoTime, "core fields are missing")

PropPhotoTask(p) ==
    DesiredTask(<<"AUTO_PROP_PHOTO", p.id>>, "AUTO_PROP_PHOTO", "PROPERTY", p.id,
                [tag |-> "photo", hint |-> name_hint(p), missing |-> <<>>,
                 at |-> NoTime],
                NoTime, "photos are needed")

NeedsPhotoAlways(p, photoRows) == p.status # LegacyDealDone

\* the photo rule's condition: status != "거래완료" and (no photo or status
\* == "사진필요")
NeedsPhoto(p, photoRows) ==
    /\ p.status # LegacyDealDone
    /\ (photo_count(photoRows, p.id) = 0 \/ p.status = LegacyNeedsPhoto)

PropTasksOfAny(p, photoRows) ==
    (IF missing(p) # <<>> THEN <<PropInfoTask(p)>> ELSE <<>>)
    \o (IF NeedsPhoto(p, photoRows) THEN <<PropPhotoTask(p)>> ELSE <<>>)

\* the tasks one property contributes, in insertion order
PropTasks(p, photoRows) ==
    IF p.deleted = 1 \/ p.hidden = 1 THEN <<>>
    ELSE (IF missing(p) # <<>> THEN <<PropInfoTask(p)>> ELSE <<>>)
         \o (IF NeedsPhoto(p, photoRows) THEN <<PropPhotoTask(p)>> ELSE <<>>)

\* v.get("title") or "현장/상담", stripped
ViewingTitle(v) == IF v.title = "" THEN "site/consult" ELSE Strip(v.title)

ViewingTask(v, kind, tag, at, note) ==
    DesiredTask(<<kind, v.id>>, kind, "VIEWING", v.id,
                [tag |-> tag,
                 hint |-> IF tag = "result"
                          THEN <<ViewingTitle(v), ToString(v.id)>>
                          ELSE <<ViewingTitle(v)>>,
                 missing |-> <<>>, at |-> at],
                at, note)

\* start_dt < now - timedelta(hours=1)
IsOverdue(start, clock) == start < clock - OverdueGrace

\* the elif: start_dt <= now + timedelta(hours=24)
IsUpcoming(start, clock) == start <= clock + PrepWindow

\* the comparison of an offset-aware start with the naive now raises TypeError
ViewingRaises(v) ==
    /\ Strip(v.status) = Scheduled
    /\ parse_dt(v.start_at).ok
    /\ parse_dt(v.start_at).aware

\* the tasks one viewing contributes (when it does not raise)
ViewingTasks(v, clock) ==
    LET dt == parse_dt(v.start_at)
        st == Strip(v.status)
    IN  (IF st = Scheduled /\ dt.ok
         THEN IF IsOverdue(dt.t, clock)
              THEN <<ViewingTask(v, "AUTO_VIEWING_OVERDUE", "overdue",
                                 fmt_local(dt.t), "still scheduled after its time")>>
              ELSE IF IsUpcoming(dt.t, clock)
                   THEN <<ViewingTask(v, "AUTO_VIEWING_PREP", "prep",
                                      fmt_local(dt.t), "check before the visit")>>
                   ELSE <<>>
         ELSE <<>>)
        \o (IF st = Done /\ Strip(v.memo) = ""
            THEN <<ViewingTask(v, "AUTO_VIEWING_RESULT", "result", NoTime,
                               "done but the memo is empty")>>
            ELSE <<>>)

RECURSIVE AllPropTasks(_, _)
AllPropTasks(plist, photoRows) ==
    IF plist = <<>> THEN <<>>
    ELSE PropTasks(Head(plist), photoRows) \o AllPropTasks(Tail(plist), photoRows)

RECURSIVE AllViewingTasks(_, _)
AllViewingTasks(vlist, clock) ==
    IF vlist = <<>> THEN <<>>
    ELSE ViewingTasks(Head(vlist), clock) \o AllViewingTasks(Tail(vlist), clock)

\* compute_desired_auto_tasks(properties=plist, photos=photoRows,
\* viewings=vlist, now=clock): the desired tasks in insertion order, or raised
compute_desired_auto_tasks(plist, photoRows, vlist, clock) ==
    IF \E i \in 1..Len(vlist) : ViewingRaises(vlist[i])
    THEN [raised |-> TRUE, tasks |-> <<>>]
    ELSE [raised |-> FALSE,
          tasks |-> AllPropTasks(plist, photoRows) \o AllViewingTasks(vlist, clock)]

\* desired.keys()
Keys(dseq) == {dseq[i].unique_key : i \in 1..Len(dseq)}

----------------------------------------------------------------------------
(* Record store: the tasks table *)

\* the row an INSERT INTO tasks writes
TaskRow(id, d) ==
    [id |-> id, unique_key |-> d.unique_key, kind |-> d.kind,
     entity_type |-> d.entity_type, entity_id |-> d.entity_id,
     title |-> d.title, due_at |-> d.due_at, status |-> d.status,
     note |-> d.note]

\* CREATE UNIQUE INDEX idx_tasks_unique_key ON tasks(unique_key): NULLs are
\* distinct from each other, every other value may appear once
UniqueIndexNone(rows, key) == TRUE
UniqueIndexAllows(rows, key) ==
    key = NullKey \/ \A r \in rows : r.unique_key # key

\* add_task: a plain INSERT; IntegrityError (no row written) when the unique
\* index refuses the key
add_task(rows, id, d) ==
    IF UniqueIndexAllows(rows, d.unique_key)
    THEN [ok |-> TRUE, rows |-> rows \cup {TaskRow(id, d)}]
    ELSE [ok |-> FALSE, rows |-> rows]

\* ON CONFLICT(unique_key) DO UPDATE SET kind, entity_type, entity_id, title,
\* due_at, status, note (id and unique_key stay)
ConflictUpdateKeepsEntity(r, d) ==
    [r EXCEPT !.kind = d.kind, !.title = d.title, !.due_at = d.due_at,
              !.status = d.status, !.note = d.note]
ConflictUpdateKeepsStatus(r, d) ==
    [r EXCEPT !.kind = d.kind, !.entity_type = d.entity_type,
              !.entity_id = d.entity_id, !.title = d.title,
              !.due_at = d.due_at, !.note = d.note]
ConflictUpdate(r, d) ==
    [r EXCEPT !.kind = d.kind, !.entity_type = d.entity_type,
              !.entity_id = d.entity_id, !.title = d.title,
              !.due_at = d.due_at, !.status = d.status, !.note = d.note]

\* upsert_task_unique: one INSERT ... ON CONFLICT(unique_key) DO UPDATE
\* statement; inserted is TRUE when it took a new id
UpsertAlwaysInserts(rows, id, d) ==
    [inserted |-> TRUE, rows |-> rows \cup {TaskRow(id, d)}]
upsert_task_unique(rows, id, d) ==
    IF UniqueIndexAllows(rows, d.unique_key)
    THEN [inserted |-> TRUE, rows |-> rows \cup {TaskRow(id, d)}]
    ELSE [inserted |-> FALSE,
          rows |-> {IF r.unique_key = d.unique_key THEN ConflictUpdate(r, d)
                    ELSE r : r \in rows}]

\* upsert_task_unique's before: SELECT * FROM tasks WHERE unique_key=?
before_id(rows, key) ==
    IF \E r \in rows : r.unique_key = key
    THEN (CHOOSE r \in rows : r.unique_key = key).id ELSE 0

\* set_task_status: UPDATE tasks SET status=? WHERE id=?
set_task_status(rows, id, status) ==
    {IF r.id = id THEN [r EXCEPT !.status = status] ELSE r : r \in rows}

\* delete_task: DELETE FROM tasks WHERE id=?
delete_task(rows, id) == {r \in rows : r.id # id}

\* list_tasks(include_done=..., kind_prefix="AUTO_"), as a set of rows
ListAutoWithDone(rows, include_done) == {r \in rows : LikeAuto(r.kind)}
list_auto_tasks(rows, include_done) ==
    {r \in rows : LikeAuto(r.kind) /\ (include_done \/ r.status = "OPEN")}

----------------------------------------------------------------------------
(* Reconciler: reconcile_auto_tasks *)

\* outcomes of a call that returned no count
NoOutcome == 0 - 1
Raised == 0 - 2

NoFault == [op |-> "none", at |-> 0]

\* step 1, the upsert loop over desired.items(), up to and excluding the
\* entry whose upsert raises (stop = Len + 1 when none does)
RECURSIVE UpsertLoop(_, _, _, _, _)
UpsertLoop(rows, id, dseq, i, stop) ==
    IF i > Len(dseq) \/ i >= stop THEN [rows |-> rows, next |-> id]
    ELSE LET u == upsert_task_unique(rows, id, dseq[i])
         IN  UpsertLoop(u.rows, IF u.inserted THEN id + 1 ELSE id, dseq, i + 1, stop)

\* existing_by_key: the listed rows whose unique_key is truthy
existing_by_key(existing) == {r \in existing : Truthy(r.unique_key)}

\* step 2: the rows the resolve loop selects (by the snapshot's status)
Obsolete(existing, dkeys) ==
    {r \in existing_by_key(existing) :
        r.unique_key \notin dkeys /\ r.status = "OPEN"}

\* step 2, the resolve loop: set_task_status(id, "DONE") for each selected row;
\* a call that raises is skipped by the except clause (failId = 0 when none)
ResolveLoop(rows, obsolete, failId) ==
    {IF r.id \in {o.id : o \in obsolete} \ {failId}
     THEN [r EXCEPT !.status = "DONE"] ELSE r : r \in rows}

\* the whole call on the snapshot (plist, photoRows, vlist) read at its start,
\* under store fault `fault`
reconcile_auto_tasks(rows, id, plist, photoRows, vlist, clock, fault) ==
    LET d == compute_desired_auto_tasks(plist, photoRows, vlist, clock) IN
    IF d.raised THEN [rows |-> rows, next |-> id, ret |-> Raised]
    ELSE
    LET existing == list_auto_tasks(rows, TRUE)
        stop == IF fault.op = "upsert" THEN fault.at ELSE Len(d.tasks) + 1
        up == UpsertLoop(rows, id, d.tasks, 1, stop)
    IN  IF fault.op = "upsert"
        THEN [rows |-> up.rows, next |-> up.next, ret |-> Raised]
        ELSE LET after == ResolveLoop(up.rows, Obsolete(existing, Keys(d.tasks)),
                                      IF fault.op = "status" THEN fault.at ELSE 0)
             IN  [rows |-> after, next |-> up.next,
                  ret |-> Cardinality(list_auto_tasks(after, FALSE))]

----------------------------------------------------------------------------
(* Record store: properties, photos, viewings *)

\* data.get(key, default) on a payload that may lack the key
Get(data, key, default) == IF key \in DOMAIN data THEN data[key] ELSE default

\* add_property: the row INSERTed for payload `data`
add_property(id, data) ==
    [id |-> id, tab |-> data.tab,
     complex_name |-> IF data.complex_name # "" THEN data.complex_name
                      ELSE TabComplexName(data.tab),
     unit_type |-> data.unit_type, area |-> data.area,
     address_detail |-> data.address_detail, floor |-> data.floor,
     repair_needed |-> IF Get(data, "repair_needed", FALSE) THEN 1 ELSE 0,
     status |-> data.status, hidden |-> IF data.hidden THEN 1 ELSE 0,
     deleted |-> 0]

\* update_property: the UPDATE's values for the columns modelled here, each
\* taken from the payload when it has the key and from the row otherwise
update_property(rows, id, data) ==
    {IF r.id # id THEN r
     ELSE LET tab == Get(data, "tab", r.tab)
          IN  [r EXCEPT
                 !.tab = tab,
                 !.complex_name =
                     IF Get(data, "complex_name", "") # ""
                     THEN data.complex_name
                     ELSE IF tab \in StructuredTabs THEN TabComplexName(tab)
                          ELSE r.complex_name,
                 !.unit_type = Get(data, "unit_type", r.unit_type),
                 !.area = Get(data, "area", r.area),
                 !.address_detail = Get(data, "address_detail", r.address_detail),
                 !.floor = Get(data, "floor", r.floor),
                 !.repair_needed =
                     IF Get(data, "repair_needed", FALSE) THEN 1 ELSE 0,
                 !.status = Get(data, "status", r.status)]
     : r \in rows}

\* toggle_property_hidden: hidden = CASE WHEN hidden=1 THEN 0 ELSE 1 END
toggle_property_hidden(rows, id) ==
    {IF r.id = id THEN [r EXCEPT !.hidden = IF r.hidden = 1 THEN 0 ELSE 1]
     ELSE r : r \in rows}

\* soft_delete_property: deleted = 1
soft_delete_property(rows, id) ==
    {IF r.id = id THEN [r EXCEPT !.deleted = 1] ELSE r : r \in rows}

\* restore_property: deleted = 0
restore_property(rows, id) ==
    {IF r.id = id THEN [r EXCEPT !.deleted = 0] ELSE r : r \in rows}

\* update_viewing_status: UPDATE viewings SET status=? WHERE id=?
update_viewing_status(rows, id, status) ==
    {IF r.id = id THEN [r EXCEPT !.status = status] ELSE r : r \in rows}

\* every arrangement of a set of rows as a list
RECURSIVE Orders(_)
Orders(rows) ==
    IF rows = {} THEN {<<>>}
    ELSE UNION {{<<r>> \o rest : rest \in Orders(rows \ {r})} : r \in rows}

\* list_properties(include_deleted=False): WHERE deleted=0 ORDER BY hidden
\* ASC, updated_at DESC, created_at DESC; the timestamps are not modelled, so
\* rows with the same hidden flag come in any order
list_properties(rows) ==
    {vis \o hid : vis \in Orders({r \in rows : r.deleted = 0 /\ r.hidden = 0}),
                  hid \in Orders({r \in rows : r.deleted = 0 /\ r.hidden = 1})}

\* list_viewings(): ORDER BY start_at DESC on the text; any order here
list_viewings(rows) == Orders(rows)

----------------------------------------------------------------------------
(* Rule-based matching: app/matching.py and app/money_utils.py *)

\* Texts the matcher takes apart:
\*   - a comma-separated field (deal_type, preferred_tab) is the list of its
\*     pieces between the commas, blanks included (<<"jeonse", " wolse">> is
\*     "jeonse, wolse"); the empty text is <<>>;
\*   - a range text (preferred_area, preferred_pyeong) is [shape, lo, hi];
\*   - floor_preference is the set of markers the text contains: "go" for
\*     "고", "jeo" for "저", "mugwan" for "무관"; the condition grades are
\*     "sang" for "상" and "jung" for "중";
\*   - a number column is <<n>>, or <<>> for None / text that is no number.
Sale == "maemae"      \* "매매"
Jeonse == "jeonse"    \* "전세"
Wolse == "wolse"      \* "월세"

Min2(a, b) == IF a <= b THEN a ELSE b
Max2(a, b) == IF a >= b THEN a ELSE b
Abs(a) == IF a < 0 THEN -a ELSE a

\* str.split(","): the empty text gives one empty piece
Split(text) == IF text = <<>> THEN <<"">> ELSE text

\* _parse_deal_types with the pieces compared as they are (no strip)
ParseDealTypesUnstripped(text) ==
    {Split(text)[i] : i \in 1..Len(Split(text))} \cap {Sale, Jeonse, Wolse}

\* _parse_deal_types
parse_deal_types(text) ==
    {Strip(Split(text)[i]) : i \in 1..Len(Split(text))}
      \cap {Sale, Jeonse, Wolse}

\* {t.strip() for t in pref_tab_text.split(",") if t.strip()}
pref_tabs(text) ==
    {Strip(Split(text)[i]) : i \in 1..Len(Split(text))} \ {""}

\* money_utils.to_int(text, default)
to_int(v, default) == IF v = <<>> THEN default ELSE v[1]

\* money_utils.eok_che_to_ten_million
eok_che_to_ten_million(eok, che) ==
    Max2(0, to_int(eok, 0) * 10 + to_int(che, 0))

\* money_utils.man_to_ten_man
man_to_ten_man(man) == Max2(0, to_int(man, 0) \div 10)

\* parse_range: (None, None) is ok = FALSE
NoRange == [ok |-> FALSE, lo |-> 0, hi |-> 0]
EmptyText == [shape |-> "empty", lo |-> 0, hi |-> 0]
parse_range(text) ==
    CASE text.shape = "range" -> [ok |-> TRUE, lo |-> text.lo, hi |-> text.hi]
      [] text.shape = "single" -> [ok |-> TRUE, lo |-> text.lo, hi |-> text.lo]
      [] OTHER -> NoRange

\* parse_floor on the floor texts the model draws from: the first run of
\* digits, None (<<>>) when there is none
parse_floor(text) ==
    CASE text = "3" -> <<3>>
      [] text = "15/25" -> <<15>>
      [] text = "20cheung" -> <<20>>
      [] OTHER -> <<>>

\* str.lower() on the keywords the model draws from
Lower(s) == IF s = "River" THEN "river" ELSE s

\* property_deal_types
property_deal_types(p) ==
    {d \in {Sale, Jeonse, Wolse} :
        \/ d = Sale /\ Get(p, "deal_sale", 0) # 0
        \/ d = Jeonse /\ Get(p, "deal_jeonse", 0) # 0
        \/ d = Wolse /\ Get(p, "deal_wolse", 0) # 0}

\* a rule's contribution: the change of the score and the reasons appended
Rule(score, reasons) == [score |-> score, reasons |-> reasons]

\* lines 92-95: the tab filter
TabPasses(c, p) ==
    LET tabs == pref_tabs(Get(c, "preferred_tab", <<>>))
        prop_tab == Strip(Get(p, "tab", ""))
    IN  ~ (tabs # {} /\ prop_tab # "" /\ prop_tab \notin tabs)

deal_overlap(c, p) ==
    parse_deal_types(Get(c, "deal_type", <<>>)) \cap property_deal_types(p)

\* lines 97-102: the deal-type filter
DealPasses(c, p) ==
    ~ (parse_deal_types(Get(c, "deal_type", <<>>)) # {} /\ deal_overlap(c, p) = {})

\* lines 106-108
DealRule(c, p) ==
    IF deal_overlap(c, p) # {} THEN Rule(15, <<"deal">>) ELSE Rule(0, <<>>)

\* lines 113-132: one range rule (area: inside 30, cap 15, distance halved;
\* pyeong: inside 25, cap 12, distance whole)
RangeRule(range, value, inside, cap, per, reason) ==
    IF range.ok /\ value # <<>>
    THEN IF range.lo <= value[1] /\ value[1] <= range.hi
         THEN Rule(inside, <<reason>>)
         ELSE Rule(- Min2(cap, Min2(Abs(value[1] - range.lo),
                                    Abs(value[1] - range.hi)) \div per), <<>>)
    ELSE Rule(5, <<>>)

AreaRule(c, p) ==
    RangeRule(parse_range(Get(c, "preferred_area", EmptyText)),
              Get(p, "area", <<>>), 30, 15, 2, "area")

PyeongRule(c, p) ==
    RangeRule(parse_range(Get(c, "preferred_pyeong", EmptyText)),
              Get(p, "pyeong", <<>>), 25, 12, 1, "pyeong")

\* lines 135-144
FloorRule(c, p) ==
    LET fl == parse_floor(Get(p, "floor", ""))
        floor_pref == Get(c, "floor_preference", {})
    IN  CASE "go" \in floor_pref /\ fl # <<>> /\ to_int(fl, 0) >= 15 ->
               Rule(10, <<"high floor">>)
          [] "jeo" \in floor_pref /\ fl # <<>> /\ to_int(fl, 0) <= 5
             /\ ~ ("go" \in floor_pref /\ fl # <<>> /\ to_int(fl, 0) >= 15) ->
               Rule(10, <<"low floor">>)
          [] OTHER -> IF "mugwan" \in floor_pref THEN Rule(3, <<>>) ELSE Rule(0, <<>>)

\* lines 147-160: the words of view, special_notes, address_detail and note,
\* lowercased
hay(p) ==
    {Lower(Get(p, f, "")) : f \in {"view", "special_notes", "address_detail", "note"}}

KeywordRule(c, p, field, reason) ==
    LET pref == Strip(Get(c, field, ""))
    IN  IF pref # "" /\ Lower(pref) \in hay(p)
        THEN Rule(6, <<reason>>) ELSE Rule(0, <<>>)

\* a condition rule that gives the same to every condition
ConditionRuleFlat(p) == Rule(4, <<>>)

\* lines 163-167
ConditionRule(p) ==
    LET cond == Strip(Get(p, "condition", ""))
    IN  CASE cond = "sang" -> Rule(4, <<>>)
          [] cond = "jung" -> Rule(2, <<>>)
          [] OTHER -> Rule(0, <<>>)

\* lines 171-175: candidates
candidates(c, p) ==
    (IF Sale \in deal_overlap(c, p)
     THEN {eok_che_to_ten_million(Get(p, "price_sale_eok", <<>>),
                                  Get(p, "price_sale_che", <<>>))} ELSE {})
    \cup
    (IF Jeonse \in deal_overlap(c, p)
     THEN {eok_che_to_ten_million(Get(p, "price_jeonse_eok", <<>>),
                                  Get(p, "price_jeonse_che", <<>>))} ELSE {})

\* a budget rule that gives nothing to a price within the budget
BudgetRuleWithoutBonus(c, p) == Rule(0, <<>>)

\* lines 169-181: the sale / jeonse budget rule
BudgetApplies(c, p) ==
    /\ deal_overlap(c, p) \cap {Sale, Jeonse} # {}
    /\ to_int(Get(c, "budget_10m", <<>>), 0) > 0

BudgetRule(c, p) ==
    LET budget_10m == to_int(Get(c, "budget_10m", <<>>), 0)
        price_10m == CHOOSE x \in candidates(c, p) :
                        \A y \in candidates(c, p) : x <= y
    IN  IF price_10m <= budget_10m THEN Rule(18, <<"budget">>)
        ELSE Rule(- Min2(20, Max2(0, price_10m - budget_10m) \div 2), <<>>)

\* lines 182-188: the monthly-rent rule
RentApplies(c, p) ==
    /\ Wolse \in deal_overlap(c, p)
    /\ to_int(Get(c, "wolse_rent_10man", <<>>), 0) > 0

RentRule(c, p) ==
    LET rent_budget_10man == to_int(Get(c, "wolse_rent_10man", <<>>), 0)
        p_rent_10man == man_to_ten_man(Get(p, "wolse_rent_man", <<>>))
    IN  IF p_rent_10man <= rent_budget_10man THEN Rule(16, <<"rent budget">>)
        ELSE Rule(- Min2(20, Max2(0, p_rent_10man - rent_budget_10man)), <<>>)

\* lines 169-188: if ... elif ...
MoneyRule(c, p) ==
    IF BudgetApplies(c, p) THEN BudgetRule(c, p)
    ELSE IF RentApplies(c, p) THEN RentRule(c, p)
    ELSE Rule(0, <<>>)

\* the rules in the order the loop body applies them
Rules(c, p) ==
    <<DealRule(c, p), AreaRule(c, p), PyeongRule(c, p), FloorRule(c, p),
      KeywordRule(c, p, "view_preference", "view"),
      KeywordRule(c, p, "location_preference", "location"),
      ConditionRule(p), MoneyRule(c, p)>>

RECURSIVE SumRules(_)
SumRules(rs) ==
    IF rs = <<>> THEN Rule(0, <<>>)
    ELSE LET rest == SumRules(Tail(rs))
         IN  Rule(Head(rs).score + rest.score, Head(rs).reasons \o rest.reasons)

\* MatchResult(property_id, score, reasons, property_row)
MatchResult(c, p) ==
    [property_id |-> p.id, score |-> SumRules(Rules(c, p)).score,
     reasons |-> SumRules(Rules(c, p)).reasons, property_row |-> p]

\* the loop of lines 91-190: results in input order
RECURSIVE Results(_, _)
Results(c, plist) ==
    IF plist = <<>> THEN <<>>
    ELSE (IF TabPasses(c, Head(plist)) /\ DealPasses(c, Head(plist))
          THEN <<MatchResult(c, Head(plist))>> ELSE <<>>)
         \o Results(c, Tail(plist))

\* list.sort(key=score, reverse=True): stable, equal scores keep their order
RECURSIVE InsertByScore(_, _)
InsertByScore(sorted, r) ==
    IF sorted = <<>> THEN <<r>>
    ELSE IF Head(sorted).score >= r.score
         THEN <<Head(sorted)>> \o InsertByScore(Tail(sorted), r)
         ELSE <<r>> \o sorted

RECURSIVE SortByScore(_)
SortByScore(rs) ==
    IF rs = <<>> THEN <<>>
    ELSE InsertByScore(SortByScore(SubSeq(rs, 1, Len(rs) - 1)), rs[Len(rs)])

\* results[:limit]: a negative limit counts from the end
Slice(rs, limit) ==
    IF limit >= 0 THEN SubSeq(rs, 1, Min2(Len(rs), limit))
    ELSE SubSeq(rs, 1, Max2(0, Len(rs) + limit))

\* match_properties(customer, properties, limit=limit)
match_properties(c, plist, limit) == Slice(SortByScore(Results(c, plist)), limit)

----------------------------------------------------------------------------
(* Unit conversions of app/money_utils.py over amounts of any size *)

\* An amount is [hi, lo], the integer hi * Base + lo with 0 <= lo < Base; a
\* negative amount has hi < 0. Base is 10^8, a multiple of 10 and of 2^8.
Base == 100000000
W(hi, lo) == [hi |-> hi, lo |-> lo]
Amount(n) == IF n < 0 THEN W(0 - 1, Base + n) ELSE W(0, n)
WLess(a, b) == a.hi < b.hi \/ (a.hi = b.hi /\ a.lo < b.lo)
WPlus(a, c) == W(a.hi + (a.lo + c) \div Base, (a.lo + c) % Base)
WTimes10(a) == W(a.hi * 10 + (a.lo * 10) \div Base, (a.lo * 10) % Base)
\* Python's // and % by 10 (floor division)
WDiv10(a) == W(a.hi \div 10, ((a.hi % 10) * Base + a.lo) \div 10)
WMod10(a) == ((a.hi % 10) * Base + a.lo) % 10
\* max(0, a)
WMax0(a) == IF a.hi < 0 THEN W(0, 0) ELSE a

\* 2^53 .. 2^56: from 2^53 on a double holds only every 2nd, 4th, 8th, 16th
\* integer
Pow53 == W(90071992, 54740992)
Pow54 == W(180143985, 9481984)
Pow55 == W(360287970, 18963968)
Pow56 == W(720575940, 37927936)
Granule(a) ==
    IF WLess(a, Pow53) THEN 1
    ELSE IF WLess(a, Pow54) THEN 2
    ELSE IF WLess(a, Pow55) THEN 4
    ELSE IF WLess(a, Pow56) THEN 8 ELSE 16

\* float(str(a)) for an integer a: the nearest double, ties to the even
\* mantissa
float(a) ==
    LET g == Granule(a)
        r == a.lo % g
        down == W(a.hi, a.lo - r)
        up == WPlus(down, g)
    IN  IF 2 * r < g THEN down
        ELSE IF 2 * r > g THEN up
        ELSE IF down.lo % (2 * g) = 0 THEN down ELSE up

\* to_int: int(float(str(text).strip())); a negative amount drawn here is
\* small and converts exactly
to_int_wide(a) == IF a.hi < 0 THEN a ELSE float(a)

\* ten_million_to_eok_che(n_10m) -> (eok, che)
ten_million_to_eok_che(n_10m) ==
    LET n == WMax0(to_int_wide(n_10m))
    IN  [eok |-> WDiv10(n), che |-> WMod10(n)]

\* eok_che_to_ten_million(eok, che), che a number below Base
eok_che_to_ten_million_wide(eok, che) ==
    WMax0(WPlus(WTimes10(to_int_wide(eok)), che))

\* ten_man_to_man(n_10man)
ten_man_to_man(n_10man) == WMax0(WTimes10(to_int_wide(n_10man)))

\* man_to_ten_man(man)
man_to_ten_man_wide(man) == WMax0(WDiv10(to_int_wide(man)))

----------------------------------------------------------------------------
(* Inputs the operations are called with *)

\* tab "상가" has no unit master
CompleteInfo ==
    [tab |-> "Sangga", complex_name |-> "", unit_type |-> "84A",
     area |-> <<84>>, address_detail |-> "101-1203", floor |-> "3",
     status |-> StatusNew, hidden |-> FALSE]

\* payloads of add_property: one with fields missing, one with the legacy
\* status, one contract-done, one complete
MissingInfo ==
    [CompleteInfo EXCEPT !.tab = "Bongdam Xi Pride City", !.unit_type = "",
                         !.floor = " "]

PropertyPayloads ==
    {MissingInfo, [CompleteInfo EXCEPT !.status = LegacyNeedsPhoto]}

StorePropertyPayloads == {CompleteInfo}

LocalMin(t) == [fmt |-> "local_min", t |-> t]

ViewingPayloads ==
    { [start_at |-> LocalMin(T0 - OverdueGrace), status |-> Scheduled,
       title |-> "visit", memo |-> ""],
      [start_at |-> [fmt |-> "iso_tz", t |-> T0 - 2 * OverdueGrace],
       status |-> Scheduled, title |-> "", memo |-> ""] }

ManualTask ==
    [unique_key |-> NullKey, kind |-> "MANUAL", entity_type |-> "NONE",
     entity_id |-> 0,
     title |-> [tag |-> "manual", hint |-> <<"call">>, missing |-> <<>>,
                at |-> NoTime],
     due_at |-> NoTime, status |-> "OPEN", note |-> ""]

\* add_task as the task window calls it, and with the key and kind
\* parameters the store also takes
TaskPayloads ==
    { ManualTask,
      [ManualTask EXCEPT !.unique_key = <<"AUTO_PROP_PHOTO", 1>>],
      [ManualTask EXCEPT !.unique_key = EmptyKey, !.kind = "AUTO_PROP_PHOTO"] }

StoreTaskPayloads ==
    { ManualTask,
      [ManualTask EXCEPT !.unique_key = <<"AUTO_PROP_PHOTO", 1>>],
      [ManualTask EXCEPT !.unique_key = ManualKey, !.kind = "AUTOMATIC"] }

\* a direct upsert_task_unique call with its default kind "AUTO"
UpsertPayloads ==
    { [ManualTask EXCEPT !.unique_key = ManualKey, !.kind = "AUTO",
                         !.status = "DONE"] }

----------------------------------------------------------------------------
(* The program's operations on the store, one action each *)

Ids(rows) == {r.id : r \in rows}

\* the handler threads of the ThreadingHTTPServer that run a pass
Threads == {"t1", "t2"}

\* no compute_desired_auto_tasks call has been made on its own yet
NotComputed == [done |-> FALSE, clock |-> NoTime, raised |-> FALSE, tasks |-> <<>>]

\* no API handler has answered yet
NoResponse == [status |-> 0, matches |-> <<>>]

\* no match_properties call has been made on its own yet
NotMatched ==
    [done |-> FALSE, customer |-> <<>>, plist |-> <<>>, limit |-> 0,
     result |-> <<>>]

\* a thread's pass: where it is, what it has read, what is left to do
IdlePass ==
    [pc |-> "idle", plist |-> <<>>, photos |-> {}, dseq |-> <<>>,
     existing |-> {}, i |-> 0, todo |-> {}, ret |-> NoOutcome]

\* rows inserted so far, and whether n more fit the model's bound
Inserted ==
    (nextId.properties - 1) + (nextId.photos - 1) + (nextId.viewings - 1)
    + (nextId.tasks - 1)
Room(n) == Inserted + n <= MaxRows

\* what every call other than reconcile_auto_tasks and add_photo leaves of
\* the bookkeeping variables
Written == lastRet' = NoOutcome /\ runs' = 0 /\ armed' = 0 /\ upsertHit' = 0

\* no conversion has been made yet
NoMoney == [op |-> "none", n |-> W(0, 0), mid |-> W(0, 0), che |-> 0,
            out |-> W(0, 0)]

\* the window as __init__ leaves it with the default settings: no export
\* running, no debounce timer, the auto-sync loop armed (AUTO_SYNC_ON "1")
SyncIdle ==
    [inflight |-> FALSE, after_id |-> FALSE, auto_sync_on |-> TRUE,
     auto_after_id |-> TRUE, worker |-> "none", button |-> FALSE,
     calls |-> 0, seen |-> 0]

\* _last_undo_payload = None
NoUndo == [action |-> "none", id |-> 0, before_hidden |-> 0,
           before_status |-> ""]

WindowIdle == [undo |-> NoUndo, last |-> "none"]

\* no audit_log row yet; before / after hold the row as a set, None (which
\* _audit stores as NULL) being the empty one
NoAudit == [entity_type |-> "none", entity_id |-> 0, action |-> "none",
            before |-> {}, after |-> {}]

NoCall == [path |-> "none", kwargs |-> {}, status |-> 0]

NoExport == [done |-> FALSE, rows |-> <<>>, out |-> <<>>]

\* the state the harnesses and the desktop window start in
OthersInit == money = NoMoney
              /\ exported = NoExport
              /\ listCall = NoCall
              /\ sync = SyncIdle
              /\ window = WindowIdle
              /\ audit = NoAudit

Init ==
    /\ properties = {} /\ photos = {} /\ viewings = {} /\ tasks = {}
    /\ nextId = [properties |-> 1, photos |-> 1, viewings |-> 1, tasks |-> 1]
    /\ now = T0
    /\ lastRet = NoOutcome /\ runs = 0 /\ armed = 0 /\ upsertHit = 0
    /\ passes = [t \in Threads |-> IdlePass]
    /\ desiredOut = NotComputed
    /\ customers = {} /\ response = NoResponse /\ matching = NotMatched
    /\ OthersInit

AddProperty(data) ==
    /\ Room(1)
    /\ properties' = properties \cup {add_property(nextId.properties, data)}
    /\ nextId' = [nextId EXCEPT !.properties = @ + 1]
    /\ Written
    /\ UNCHANGED <<photos, viewings, tasks, now, passes, desiredOut, customers,
                   response, matching, others>>

TogglePropertyHidden(id) ==
    /\ properties' = toggle_property_hidden(properties, id)
    /\ Written
    /\ UNCHANGED <<photos, viewings, tasks, nextId, now, passes, desiredOut, customers,
                   response, matching, others>>

\* update_property raises ValueError when the row does not exist; the action
\* is taken on rows that do
UpdateProperty(id, data) ==
    /\ properties' = update_property(properties, id, data)
    /\ properties' # properties
    /\ Written
    /\ UNCHANGED <<photos, viewings, tasks, nextId, now, passes, desiredOut, customers,
                   response, matching, others>>

SoftDeleteProperty(id) ==
    /\ properties' = soft_delete_property(properties, id)
    /\ properties' # properties
    /\ Written
    /\ UNCHANGED <<photos, viewings, tasks, nextId, now, passes, desiredOut, customers,
                   response, matching, others>>

RestoreProperty(id) ==
    /\ properties' = restore_property(properties, id)
    /\ properties' # properties
    /\ Written
    /\ UNCHANGED <<photos, viewings, tasks, nextId, now, passes, desiredOut, customers,
                   response, matching, others>>

\* the OPEN task row keyed AUTO_PROP_PHOTO:{pid} of a visible property that
\* has no photo yet (0 when there is none)
OpenPhotoTaskOf(pid) ==
    LET hit == {r \in tasks : /\ r.unique_key = <<"AUTO_PROP_PHOTO", pid>>
                              /\ r.status = "OPEN"}
    IN  IF /\ \E p \in properties : p.id = pid /\ p.hidden = 0 /\ p.deleted = 0
           /\ photo_count(photos, pid) = 0
           /\ hit # {}
        THEN (CHOOSE r \in hit : TRUE).id ELSE 0

AddPhoto(pid) ==
    /\ Room(1)
    /\ photos' = photos \cup {[id |-> nextId.photos, property_id |-> pid]}
    /\ nextId' = [nextId EXCEPT !.photos = @ + 1]
    /\ lastRet' = NoOutcome /\ runs' = 0 /\ upsertHit' = 0
    /\ armed' = OpenPhotoTaskOf(pid)
    /\ UNCHANGED <<properties, viewings, tasks, now, passes, desiredOut, customers,
                   response, matching, others>>

AddViewing(data) ==
    /\ Room(1)
    /\ viewings' = viewings \cup
          {[id |-> nextId.viewings, start_at |-> data.start_at,
            status |-> data.status, title |-> data.title, memo |-> data.memo]}
    /\ nextId' = [nextId EXCEPT !.viewings = @ + 1]
    /\ Written
    /\ UNCHANGED <<properties, photos, tasks, now, passes, desiredOut, customers,
                   response, matching, others>>

UpdateViewingStatus(id, status) ==
    /\ viewings' = update_viewing_status(viewings, id, status)
    /\ viewings' # viewings
    /\ Written
    /\ UNCHANGED <<properties, photos, tasks, nextId, now, passes, desiredOut, customers,
                   response, matching, others>>

AddTask(d) ==
    /\ Room(1)
    /\ LET r == add_task(tasks, nextId.tasks, d)
       IN  /\ tasks' = r.rows
           /\ nextId' = IF r.ok THEN [nextId EXCEPT !.tasks = @ + 1] ELSE nextId
    /\ Written
    /\ UNCHANGED <<properties, photos, viewings, now, passes, desiredOut, customers,
                   response, matching, others>>

UpsertTaskUnique(d) ==
    /\ LET u == upsert_task_unique(tasks, nextId.tasks, d)
       IN  /\ u.inserted => Room(1)
           /\ tasks' = u.rows
           /\ nextId' = IF u.inserted THEN [nextId EXCEPT !.tasks = @ + 1]
                        ELSE nextId
    /\ upsertHit' = before_id(tasks, d.unique_key)
    /\ lastRet' = NoOutcome /\ runs' = 0 /\ armed' = 0
    /\ UNCHANGED <<properties, photos, viewings, now, passes, desiredOut, customers,
                   response, matching, others>>

SetTaskStatus(id, status) ==
    /\ tasks' = set_task_status(tasks, id, status)
    /\ tasks' # tasks
    /\ Written
    /\ UNCHANGED <<properties, photos, viewings, nextId, now, passes, desiredOut, customers,
                   response, matching, others>>

DeleteTask(id) ==
    /\ tasks' = delete_task(tasks, id)
    /\ Written
    /\ UNCHANGED <<properties, photos, viewings, nextId, now, passes, desiredOut, customers,
                   response, matching, others>>

\* the store faults one call can meet: none, the at-th upsert raising, or
\* set_task_status raising for task `at`
Faults(plist, vlist) ==
    LET d == compute_desired_auto_tasks(plist, photos, vlist, now)
        obsolete == Obsolete(list_auto_tasks(tasks, TRUE), Keys(d.tasks))
    IN  {NoFault}
        \cup (IF d.raised THEN {}
              ELSE {[op |-> "upsert", at |-> i] : i \in 1..Len(d.tasks)}
                   \cup {[op |-> "status", at |-> r.id] : r \in obsolete})

\* one reconcile_auto_tasks call, run alone
Reconcile(plist, vlist, fault) ==
    LET r == reconcile_auto_tasks(tasks, nextId.tasks, plist, photos, vlist,
                                  now, fault)
    IN  /\ Room(r.next - nextId.tasks)
        /\ tasks' = r.rows
        /\ nextId' = [nextId EXCEPT !.tasks = r.next]
        /\ lastRet' = r.ret
        /\ runs' = IF fault # NoFault THEN 0 ELSE IF runs < 2 THEN runs + 1 ELSE 2
        /\ armed' = 0 /\ upsertHit' = 0
        /\ UNCHANGED <<properties, photos, viewings, now, passes, desiredOut, customers,
                   response, matching, others>>

\* a call that meets no store fault
ReconcileCall ==
    \E plist \in list_properties(properties), vlist \in list_viewings(viewings) :
        Reconcile(plist, vlist, NoFault)

\* a call during which one upsert_task_unique or set_task_status call raises
ReconcileFaulty ==
    \E plist \in list_properties(properties), vlist \in list_viewings(viewings) :
        \E fault \in Faults(plist, vlist) \ {NoFault} :
            Reconcile(plist, vlist, fault)

\* time passes
Tick ==
    /\ now < T0 + MaxTicks * TickStep
    /\ now' = now + TickStep
    /\ Written
    /\ UNCHANGED <<properties, photos, viewings, tasks, nextId, passes, desiredOut, customers,
                   response, matching, others>>

\* the desktop application and the API: registrations, hiding, photos,
\* viewings, the task window, "done", time passing, and reconciliation
Next ==
    \/ \E data \in PropertyPayloads : AddProperty(data)
    \/ \E id \in Ids(properties) : TogglePropertyHidden(id)
    \/ \E pid \in Ids(properties) : AddPhoto(pid)
    \/ \E data \in ViewingPayloads : AddViewing(data)
    \/ \E d \in TaskPayloads : AddTask(d)
    \/ \E id \in Ids(tasks) : SetTaskStatus(id, "DONE")
    \/ ReconcileCall
    \/ Tick

Spec == Init /\ [][Next]_vars

\* a later value of the floor column, sent alone
FloorEdit == [floor |-> "3"]

\* the property window: registering, editing, hiding and showing, deleting
\* and restoring, adding photos, with reconciliation in between
NextProps ==
    \/ \E data \in PropertyPayloads : AddProperty(data)
    \/ \E id \in Ids(properties) : UpdateProperty(id, FloorEdit)
    \/ \E id \in Ids(properties) : TogglePropertyHidden(id)
    \/ \E id \in Ids(properties) : SoftDeleteProperty(id)
    \/ \E id \in Ids(properties) : RestoreProperty(id)
    \/ \E pid \in Ids(properties) : AddPhoto(pid)
    \/ ReconcileCall

SpecProps == Init /\ [][NextProps]_vars

\* the store's task operations called in any order, over one property that
\* is registered, hidden and shown again
NextStore ==
    \/ \E data \in StorePropertyPayloads : AddProperty(data)
    \/ \E id \in Ids(properties) : TogglePropertyHidden(id)
    \/ \E d \in StoreTaskPayloads : AddTask(d)
    \/ \E d \in UpsertPayloads : UpsertTaskUnique(d)
    \/ \E id \in Ids(tasks), status \in {"OPEN", "DONE"} : SetTaskStatus(id, status)
    \/ \E id \in Ids(tasks) : DeleteTask(id)
    \/ ReconcileCall

SpecStore == Init /\ [][NextStore]_vars

\* reconciliation with store faults, over one property with fields missing
\* that is hidden and shown again, its photo and a viewing
NextFault ==
    \/ AddProperty(MissingInfo)
    \/ \E id \in Ids(properties) : TogglePropertyHidden(id)
    \/ \E pid \in Ids(properties) : AddPhoto(pid)
    \/ \E data \in ViewingPayloads : AddViewing(data)
    \/ \E id \in Ids(viewings) : UpdateViewingStatus(id, Done)
    \/ ReconcileCall
    \/ ReconcileFaulty

SpecFault == Init /\ [][NextFault]_vars

----------------------------------------------------------------------------
(* Passes of several threads, interleaved at the store calls *)

Step(t, new) ==
    /\ passes' = [passes EXCEPT ![t] = new]
    /\ UNCHANGED <<properties, photos, viewings, now, lastRet, runs, armed,
                   upsertHit, desiredOut, customers,
                   response, matching, others>>

\* properties = list_properties(include_deleted=False)
PassListProperties(t) ==
    /\ passes[t].pc = "idle"
    /\ \E plist \in list_properties(properties) :
          Step(t, [IdlePass EXCEPT !.pc = "photos", !.plist = plist])
    /\ UNCHANGED <<tasks, nextId>>

\* photos = list_photos_all()
PassListPhotos(t) ==
    /\ passes[t].pc = "photos"
    /\ Step(t, [passes[t] EXCEPT !.pc = "viewings", !.photos = photos])
    /\ UNCHANGED <<tasks, nextId>>

\* viewings = list_viewings(); desired = compute_desired_auto_tasks(...),
\* which ends the pass when it raises
PassListViewings(t) ==
    /\ passes[t].pc = "viewings"
    /\ \E vlist \in list_viewings(viewings) :
          LET d == compute_desired_auto_tasks(passes[t].plist, passes[t].photos,
                                              vlist, now)
          IN  Step(t, IF d.raised THEN [IdlePass EXCEPT !.ret = Raised]
                      ELSE [IdlePass EXCEPT !.pc = "existing", !.dseq = d.tasks])
    /\ UNCHANGED <<tasks, nextId>>

\* existing = list_auto_tasks(include_done=True)
PassListExisting(t) ==
    /\ passes[t].pc = "existing"
    /\ Step(t, [passes[t] EXCEPT !.pc = "upsert", !.i = 1,
                                 !.existing = list_auto_tasks(tasks, TRUE)])
    /\ UNCHANGED <<tasks, nextId>>

\* one upsert_task_unique call of the loop over desired.items()
PassUpsert(t) ==
    /\ passes[t].pc = "upsert"
    /\ passes[t].i <= Len(passes[t].dseq)
    /\ LET u == upsert_task_unique(tasks, nextId.tasks, passes[t].dseq[passes[t].i])
       IN  /\ u.inserted => Room(1)
           /\ tasks' = u.rows
           /\ nextId' = IF u.inserted THEN [nextId EXCEPT !.tasks = @ + 1]
                        ELSE nextId
    /\ Step(t, [passes[t] EXCEPT !.i = @ + 1])

\* the loop over desired is done: the rows to resolve are selected from the
\* snapshot
PassSelectObsolete(t) ==
    /\ passes[t].pc = "upsert"
    /\ passes[t].i > Len(passes[t].dseq)
    /\ Step(t, [IdlePass EXCEPT
                  !.pc = "resolve",
                  !.todo = Obsolete(passes[t].existing, Keys(passes[t].dseq))])
    /\ UNCHANGED <<tasks, nextId>>

\* one set_task_status(id, "DONE") call of the resolve loop
PassResolve(t) ==
    /\ passes[t].pc = "resolve"
    /\ \E o \in passes[t].todo :
          /\ tasks' = set_task_status(tasks, o.id, "DONE")
          /\ Step(t, [passes[t] EXCEPT !.todo = @ \ {o}])
    /\ UNCHANGED nextId

\* open_now = list_auto_tasks(include_done=False); return len(open_now)
PassCount(t) ==
    /\ passes[t].pc = "resolve"
    /\ passes[t].todo = {}
    /\ Step(t, [IdlePass EXCEPT
                  !.ret = Cardinality(list_auto_tasks(tasks, FALSE))])
    /\ UNCHANGED <<tasks, nextId>>

PassStep(t) ==
    \/ PassListProperties(t)
    \/ PassListPhotos(t)
    \/ PassListViewings(t)
    \/ PassListExisting(t)
    \/ PassUpsert(t)
    \/ PassSelectObsolete(t)
    \/ PassResolve(t)
    \/ PassCount(t)

\* the task the model's add_task call puts under the photo key
KeyedManual == [ManualTask EXCEPT !.unique_key = <<"AUTO_PROP_PHOTO", 1>>]

\* two handler threads reconciling while a property is registered and
\* edited, a task is added under the photo key and a task is marked done
NextConc ==
    \/ \E t \in Threads : PassStep(t)
    \/ properties = {} /\ AddProperty(MissingInfo)
    \/ \E id \in Ids(properties) : UpdateProperty(id, FloorEdit)
    \/ \E id \in Ids(properties) : AddPhoto(id)
    \/ AddTask(KeyedManual)

SpecConc == Init /\ [][NextConc]_vars

----------------------------------------------------------------------------
(* Handler threads of the ThreadingHTTPServer: each request writes, then   *)
(* runs its own pass; the threads interleave at the store calls            *)

\* the edit that fills in what MissingInfo lacks
InfoEdit == [unit_type |-> "84A", floor |-> "3"]

\* POST /properties on thread t: property_id = storage.add_property(payload)
HandlerPostProperties(t, data) ==
    /\ passes[t].pc = "idle"
    /\ Room(1)
    /\ properties' = properties \cup {add_property(nextId.properties, data)}
    /\ nextId' = [nextId EXCEPT !.properties = @ + 1]
    /\ passes' = [passes EXCEPT ![t] = [IdlePass EXCEPT !.pc = "written"]]
    /\ Written
    /\ UNCHANGED <<photos, viewings, tasks, now, desiredOut, customers,
                   response, matching, others>>

\* PATCH /properties/{id} on thread t: storage.update_property(id, payload)
HandlerPatchProperties(t, id, data) ==
    /\ passes[t].pc = "idle"
    /\ properties' = update_property(properties, id, data)
    /\ passes' = [passes EXCEPT ![t] = [IdlePass EXCEPT !.pc = "written"]]
    /\ Written
    /\ UNCHANGED <<photos, viewings, tasks, nextId, now, desiredOut, customers,
                   response, matching, others>>

\* tasks_engine.reconcile_auto_tasks() of the handler begins:
\* properties = list_properties(include_deleted=False)
HandlerListProperties(t) ==
    /\ passes[t].pc = "written"
    /\ \E plist \in list_properties(properties) :
          Step(t, [IdlePass EXCEPT !.pc = "photos", !.plist = plist])
    /\ UNCHANGED <<tasks, nextId>>

NextHandlers ==
    \/ \E t \in Threads : HandlerPostProperties(t, MissingInfo)
    \/ \E t \in Threads, id \in Ids(properties) :
          HandlerPatchProperties(t, id, InfoEdit)
    \/ \E t \in Threads : HandlerListProperties(t)
    \/ \E t \in Threads : PassListPhotos(t)
    \/ \E t \in Threads : PassListViewings(t)
    \/ \E t \in Threads : PassListExisting(t)
    \/ \E t \in Threads : PassUpsert(t)
    \/ \E t \in Threads : PassSelectObsolete(t)
    \/ \E t \in Threads : PassResolve(t)
    \/ \E t \in Threads : PassCount(t)

SpecHandlers == Init /\ [][NextHandlers]_vars

----------------------------------------------------------------------------
(* The rule evaluator called on its own, over rows of every shape *)

\* the start_at texts: every format _parse_dt meets, at times on both sides
\* of now - 1h, now and now + 24h
EvalStarts ==
    {[fmt |-> "empty", t |-> NoTime], [fmt |-> "junk", t |-> NoTime]}
    \cup {[fmt |-> f, t |-> t] :
            f \in {"local_min", "iso"},
            t \in {T0 - 2 * OverdueGrace, T0 - OverdueGrace, T0 - 30 * Minute,
                   T0, T0 + OverdueGrace, T0 + PrepWindow,
                   T0 + PrepWindow + OverdueGrace}}
    \cup {[fmt |-> "local_sec", t |-> t] :
            t \in {T0 - OverdueGrace - 1, T0 + PrepWindow + 1}}
    \cup {[fmt |-> "iso_tz", t |-> t] : t \in {T0 - 2 * OverdueGrace, T0}}

EvalViewings ==
    {[id |-> 1, start_at |-> st, status |-> status, title |-> "", memo |-> ""] :
        st \in EvalStarts, status \in {Scheduled, " yejeong ", Done}}

EvalProperties ==
    {[add_property(1, data) EXCEPT !.hidden = h] :
        data \in {[CompleteInfo EXCEPT !.status = status] :
                    status \in {StatusNew, StatusContractDone, LegacyDealDone,
                                LegacyNeedsPhoto}},
        h \in {0, 1}}

InitEval ==
    /\ properties \in {{p} : p \in EvalProperties}
    /\ photos \in {{}, {[id |-> 1, property_id |-> 1]}}
    /\ viewings \in {{v} : v \in EvalViewings}
    /\ tasks = {}
    /\ nextId = [properties |-> 2, photos |-> Cardinality(photos) + 1,
                 viewings |-> 2, tasks |-> 1]
    /\ now = T0
    /\ lastRet = NoOutcome /\ runs = 0 /\ armed = 0 /\ upsertHit = 0
    /\ passes = [t \in Threads |-> IdlePass]
    /\ desiredOut = NotComputed
    /\ customers = {} /\ response = NoResponse /\ matching = NotMatched
    /\ OthersInit

\* compute_desired_auto_tasks(properties=..., photos=..., viewings=..., now=now)
Evaluate ==
    /\ \E plist \in Orders(properties), vlist \in Orders(viewings) :
          LET d == compute_desired_auto_tasks(plist, photos, vlist, now)
          IN  desiredOut' = [done |-> TRUE, clock |-> now, raised |-> d.raised,
                             tasks |-> d.tasks]
    /\ UNCHANGED <<properties, photos, viewings, tasks, nextId, now, lastRet,
                   runs, armed, upsertHit, passes, customers, response, matching, others>>

NextEval ==
    \/ Evaluate
    \/ Tick

SpecEval == InitEval /\ [][NextEval]_vars

----------------------------------------------------------------------------
(* The matcher called on its own, over customers and candidates of every shape *)

\* a candidate row: the deal flags, the sale price 5 eok + sale_che, the
\* jeonse price jeonse_eok eok, the monthly rent in man-won; the id is given
\* by the row's place in the list
Candidate(deals, sale_che, jeonse_eok, rent_man, condition) ==
    [id |-> 0, tab |-> "apt",
     deal_sale |-> IF Sale \in deals THEN 1 ELSE 0,
     deal_jeonse |-> IF Jeonse \in deals THEN 1 ELSE 0,
     deal_wolse |-> IF Wolse \in deals THEN 1 ELSE 0,
     price_sale_eok |-> <<5>>, price_sale_che |-> sale_che,
     price_jeonse_eok |-> jeonse_eok, price_jeonse_che |-> <<>>,
     wolse_rent_man |-> rent_man,
     area |-> <<84>>, pyeong |-> <<34>>, floor |-> "15/25", view |-> "river",
     condition |-> condition, hidden |-> 0, deleted |-> 0]

MatchCandidates ==
    {Candidate({Sale}, <<0>>, <<>>, <<>>, "sang"),
     Candidate({Sale}, <<1>>, <<>>, <<>>, "sang"),
     Candidate({Jeonse}, <<>>, <<3>>, <<>>, "jung"),
     Candidate({Wolse}, <<>>, <<>>, <<50>>, ""),
     Candidate({Wolse}, <<>>, <<>>, <<350>>, ""),
     Candidate({Sale, Wolse}, <<0>>, <<>>, <<50>>, ""),
     Candidate({Sale, Jeonse}, <<0>>, <<3>>, <<>>, ""),
     Candidate({Sale, Jeonse}, <<1>>, <<3>>, <<>>, ""),
     Candidate({Sale, Jeonse}, <<0>>, <<6>>, <<>>, ""),
     Candidate({Sale, Jeonse}, <<1>>, <<6>>, <<>>, ""),
     Candidate({}, <<>>, <<>>, <<>>, "")}

\* the lists of up to MaxCandidates rows, ids 1, 2, ... in list order
CandidateLists ==
    UNION {{[i \in 1..n |-> [f[i] EXCEPT !.id = i]] : f \in [1..n -> MatchCandidates]}
           : n \in 0..MaxCandidates}

DealTexts ==
    {<<>>, <<Sale>>, <<Jeonse, Wolse>>, <<Jeonse, " wolse">>, <<" jeonse ">>,
     <<Sale, Jeonse>>, <<Sale, Wolse>>, <<"gita">>}

\* customers stating a deal type and budgets only, and customers stating
\* other preferences
MatchCustomers ==
    {[id |-> 1, deal_type |-> d] : d \in DealTexts}
    \cup {[id |-> 1, deal_type |-> d, budget_10m |-> <<50>>] :
             d \in {<<>>, <<Sale>>, <<Sale, Jeonse>>, <<Sale, Wolse>>}}
    \cup {[id |-> 1, deal_type |-> d, wolse_rent_10man |-> <<10>>] :
             d \in {<<Jeonse, Wolse>>, <<Sale, Wolse>>}}
    \cup {[id |-> 1, deal_type |-> <<Sale, Wolse>>, budget_10m |-> <<50>>,
           wolse_rent_10man |-> <<10>>]}
    \cup {[id |-> 1],
          [id |-> 1, preferred_tab |-> <<>>, preferred_area |-> EmptyText,
           preferred_pyeong |-> EmptyText, floor_preference |-> {},
           view_preference |-> "", location_preference |-> " ",
           deal_type |-> <<>>, budget_10m |-> <<0>>, wolse_rent_10man |-> <<0>>],
          [id |-> 1, preferred_area |-> [shape |-> "range", lo |-> 60, hi |-> 70],
           preferred_pyeong |-> [shape |-> "single", lo |-> 34, hi |-> 0]],
          [id |-> 1, preferred_tab |-> <<"sangga">>, floor_preference |-> {"go"},
           view_preference |-> "River"],
          [id |-> 1, preferred_area |-> [shape |-> "junk", lo |-> 0, hi |-> 0],
           floor_preference |-> {"jeo", "mugwan"}]}

Limits == {-1, 0, 1, DefaultLimit}

InitMatch ==
    /\ properties = {} /\ photos = {} /\ viewings = {} /\ tasks = {}
    /\ nextId = [properties |-> 1, photos |-> 1, viewings |-> 1, tasks |-> 1]
    /\ now = T0
    /\ lastRet = NoOutcome /\ runs = 0 /\ armed = 0 /\ upsertHit = 0
    /\ passes = [t \in Threads |-> IdlePass]
    /\ desiredOut = NotComputed
    /\ customers = {} /\ response = NoResponse
    /\ OthersInit
    /\ matching \in {[NotMatched EXCEPT !.customer = c, !.plist = pl] :
                        c \in MatchCustomers, pl \in CandidateLists}

\* match_properties(customer, properties, limit=limit)
Match(limit) ==
    /\ matching' = [matching EXCEPT
                      !.done = TRUE, !.limit = limit,
                      !.result = match_properties(matching.customer,
                                                  matching.plist, limit)]
    /\ UNCHANGED <<properties, photos, viewings, tasks, nextId, now, lastRet,
                   runs, armed, upsertHit, passes, desiredOut, customers,
                   response, others>>

NextMatch == \E limit \in Limits : Match(limit)

SpecMatch == InitMatch /\ [][NextMatch]_vars

----------------------------------------------------------------------------
(* The HTTP API: app/api_service.py, one action per request handler *)

\* add_customer: the row INSERTed for payload `data`
add_customer(id, data) ==
    [id |-> id,
     preferred_tab |-> Get(data, "preferred_tab", <<>>),
     preferred_area |-> Get(data, "preferred_area", EmptyText),
     preferred_pyeong |-> Get(data, "preferred_pyeong", EmptyText),
     deal_type |-> Get(data, "deal_type", <<>>),
     budget_10m |-> <<to_int(Get(data, "budget_10m", <<>>), 0)>>,
     wolse_rent_10man |-> <<to_int(Get(data, "wolse_rent_10man", <<>>), 0)>>,
     view_preference |-> Get(data, "view_preference", ""),
     location_preference |-> Get(data, "location_preference", ""),
     floor_preference |-> Get(data, "floor_preference", {}),
     hidden |-> 0, deleted |-> 0]

\* get_customer(customer_id): WHERE id=? AND deleted=0
get_customer(rows, id) == {c \in rows : c.id = id /\ c.deleted = 0}

\* request bodies
ApiPropertyPayloads == {MissingInfo, [CompleteInfo EXCEPT !.hidden = TRUE]}
ApiViewingPayloads ==
    { [start_at |-> LocalMin(T0 - 2 * OverdueGrace), status |-> Scheduled,
       title |-> "visit", memo |-> ""],
      [start_at |-> [fmt |-> "iso_tz", t |-> T0], status |-> Scheduled,
       title |-> "visit", memo |-> ""],
      [start_at |-> LocalMin(T0), status |-> Scheduled, title |-> "",
       memo |-> ""] }
ApiCustomerPayloads ==
    {[customer_name |-> "Kim"],
     [customer_name |-> "Lee", preferred_tab |-> <<"Sangga">>]}

\* HTTPStatus
Ok == 200
Created == 201
BadRequest == 400
NotFound == 404
\* limit=10 of the proposal handler
ProposalLimit == 10

\* _send(status, ...): the status and, for the two matching handlers, the
\* matched rows of the body
Send(status, result) ==
    [status |-> status,
     matches |-> [i \in 1..Len(result) |->
                     [property |-> result[i].property_row,
                      score |-> result[i].score,
                      reasons |-> result[i].reasons]]]

\* the store faults a handler's pass meets here: none, or the first
\* upsert_task_unique call raising (sqlite3.OperationalError)
ApiFaults(plist, vlist) ==
    {NoFault} \cup
    (IF Len(compute_desired_auto_tasks(plist, photos, vlist, now).tasks) > 0
     THEN {[op |-> "upsert", at |-> 1]} ELSE {})

\* the tail of the three writing handlers: tasks_engine.reconcile_auto_tasks()
\* over the store as the write left it (rows props, vws; id counters ids),
\* then _send(success); an exception of the pass lands in `except Exception`
\* and sends 400
ReconcileAndSend(props, vws, ids, success) ==
    \E plist \in list_properties(props), vlist \in list_viewings(vws) :
      \E fault \in ApiFaults(plist, vlist) :
        LET r == reconcile_auto_tasks(tasks, nextId.tasks, plist, photos,
                                      vlist, now, fault)
        IN  /\ (ids.properties - 1) + (ids.photos - 1) + (ids.viewings - 1)
               + (r.next - 1) <= MaxApiRows
            /\ tasks' = r.rows
            /\ nextId' = [ids EXCEPT !.tasks = r.next]
            /\ lastRet' = r.ret
            /\ runs' = IF fault = NoFault THEN 1 ELSE 0
            /\ armed' = 0 /\ upsertHit' = 0
            /\ response' = Send(IF r.ret = Raised THEN BadRequest ELSE success,
                                <<>>)

\* POST /properties
PostProperties(data) ==
    /\ properties' = properties \cup {add_property(nextId.properties, data)}
    /\ ReconcileAndSend(properties', viewings,
                        [nextId EXCEPT !.properties = @ + 1], Created)
    /\ UNCHANGED <<photos, viewings, now, passes, desiredOut, customers,
                   matching, others>>

\* POST /viewings: 400 before any write when a required field is empty
PostViewings(data) ==
    IF data.title = "" \/ data.start_at.fmt = "empty"
    THEN /\ response' = Send(BadRequest, <<>>)
         /\ UNCHANGED <<properties, photos, viewings, tasks, nextId, now,
                        lastRet, runs, armed, upsertHit, passes, desiredOut,
                        customers, matching, others>>
    ELSE /\ viewings' = viewings \cup
               {[id |-> nextId.viewings, start_at |-> data.start_at,
                 status |-> data.status, title |-> data.title,
                 memo |-> data.memo]}
         /\ ReconcileAndSend(properties, viewings',
                             [nextId EXCEPT !.viewings = @ + 1], Created)
         /\ UNCHANGED <<properties, photos, now, passes, desiredOut, customers,
                        matching, others>>

\* PATCH /properties/{id}: update_property raises ValueError for an id that
\* has no row, answered 404
PatchProperties(id, data) ==
    IF id \notin Ids(properties)
    THEN /\ response' = Send(NotFound, <<>>)
         /\ UNCHANGED <<properties, photos, viewings, tasks, nextId, now,
                        lastRet, runs, armed, upsertHit, passes, desiredOut,
                        customers, matching, others>>
    ELSE /\ properties' = update_property(properties, id, data)
         /\ ReconcileAndSend(properties', viewings, nextId, Ok)
         /\ UNCHANGED <<photos, viewings, now, passes, desiredOut, customers,
                        matching, others>>

\* POST /customers
PostCustomers(data) ==
    /\ Cardinality(customers) < MaxCustomers
    /\ customers' = customers \cup
                      {add_customer(Cardinality(customers) + 1, data)}
    /\ response' = Send(Created, <<>>)
    /\ UNCHANGED <<properties, photos, viewings, tasks, nextId, now, lastRet,
                   runs, armed, upsertHit, passes, desiredOut, matching, others>>

\* GET /matching/{customer_id}?limit=...
GetMatching(id, limit) ==
    /\ \E plist \in list_properties(properties) :
          response' =
             IF get_customer(customers, id) = {} THEN Send(NotFound, <<>>)
             ELSE Send(Ok, match_properties(
                             CHOOSE c \in get_customer(customers, id) : TRUE,
                             plist, limit))
    /\ UNCHANGED <<properties, photos, viewings, tasks, nextId, now, lastRet,
                   runs, armed, upsertHit, passes, desiredOut, customers,
                   matching, others>>

\* POST /proposal/message/{customer_id} with no property_ids in the body: the
\* rows the message is built from
PostProposalMessage(id) ==
    /\ \E plist \in list_properties(properties) :
          LET found == get_customer(customers, id)
          IN  response' =
                 IF found = {} THEN Send(NotFound, <<>>)
                 ELSE Send(Ok, match_properties(CHOOSE c \in found : TRUE,
                                                plist, ProposalLimit))
    /\ UNCHANGED <<properties, photos, viewings, tasks, nextId, now, lastRet,
                   runs, armed, upsertHit, passes, desiredOut, customers,
                   matching, others>>

\* the limits of the query string: absent (the default) or negative
ApiLimits == {-1, DefaultLimit}

NextApi ==
    \/ \E data \in ApiPropertyPayloads : PostProperties(data)
    \/ \E data \in ApiViewingPayloads : PostViewings(data)
    \/ \E id \in 1..nextId.properties : PatchProperties(id, FloorEdit)
    \/ \E data \in ApiCustomerPayloads : PostCustomers(data)
    \/ \E id \in 1..(MaxCustomers + 1) : PostProposalMessage(id)
    \/ \E id \in 1..(MaxCustomers + 1), limit \in ApiLimits :
          GetMatching(id, limit)
    \/ \E id \in Ids(properties) : SoftDeleteProperty(id)

SpecApi == Init /\ [][NextApi]_vars

----------------------------------------------------------------------------
(* The two API handlers that list the tasks *)

\* the keyword-only parameters of storage.list_tasks
ListTasksParams ==
    {"include_done", "kind_prefix", "entity_type", "entity_id", "limit"}

\* Python binds the keywords before the body runs: one the signature does
\* not have raises TypeError
ListTasksRaises(kwargs) == ~(DOMAIN kwargs \subseteq ListTasksParams)

\* the rows list_tasks(**kwargs) selects (their order, and the three filters
\* no handler here passes, are not modelled)
list_tasks(rows, kwargs) ==
    LET include_done == IF "include_done" \in DOMAIN kwargs
                        THEN kwargs.include_done ELSE FALSE
    IN  {r \in rows : include_done \/ r.status = "OPEN"}

ListFrame ==
    UNCHANGED <<properties, photos, viewings, tasks, nextId, now, lastRet,
                runs, armed, upsertHit, passes, desiredOut, customers,
                matching, money, exported, sync, window, audit>>

\* what a handler that calls list_tasks(**kwargs) answers: the except
\* clause of do_GET / do_POST turns the TypeError into 400
ListAndSend(path, kwargs) ==
    LET status == IF ListTasksRaises(kwargs) THEN BadRequest ELSE Ok
    IN  /\ listCall' = [path |-> path, kwargs |-> DOMAIN kwargs,
                        status |-> status]
        /\ response' = Send(status, <<>>)
        /\ ListFrame

\* GET /tasks?status=...: storage.list_tasks(status=status)
GetTasks(status) == ListAndSend("GET /tasks", [status |-> status])

\* POST /sync/export: the tasks argument of upload_visible_data is
\* storage.list_tasks(status="OPEN"), evaluated before the call is made
PostSyncExport == ListAndSend("POST /sync/export", [status |-> "OPEN"])

\* the status parameter of the query string: absent, OPEN or DONE
StatusParams == {"None", "OPEN", "DONE"}

NextTasksApi ==
    \/ \E data \in ApiPropertyPayloads : PostProperties(data)
    \/ \E data \in ApiViewingPayloads : PostViewings(data)
    \/ \E status \in StatusParams : GetTasks(status)
    \/ PostSyncExport

SpecTasksApi == Init /\ [][NextTasksApi]_vars

----------------------------------------------------------------------------
(* desktop_app.py: the export, asked for by a change (request_sync, after  *)
(* a debounce), by the auto-sync loop and by the button.  Tk runs one      *)
(* callback at a time on the window's thread; the worker is a thread of    *)
(* its own.  A timer id is modelled by whether it is set.  sync.calls      *)
(* counts the request_sync calls and sync.seen is the largest count an     *)
(* export has read the store after.                                        *)

MaxRequests == 3

SyncFrame ==
    UNCHANGED <<properties, photos, viewings, tasks, nextId, now, lastRet,
                runs, armed, upsertHit, passes, desiredOut, customers,
                response, matching, money, exported, listCall, window, audit>>

\* _run_sync_in_thread: nothing when an export is in flight, else the flag
\* is set and the worker thread started
run_sync_in_thread(s) ==
    IF s.inflight THEN s
    ELSE [s EXCEPT !.inflight = TRUE, !.worker = "started"]

\* request_sync: the pending timer is cancelled and a new one set
request_sync(s) == [s EXCEPT !.after_id = TRUE, !.calls = @ + 1]

\* a change has been made and its handler calls request_sync
RequestSync ==
    /\ ~sync.button
    /\ sync.calls < MaxRequests
    /\ sync' = request_sync(sync)
    /\ SyncFrame

\* _fire: the debounce timer goes off
Fire ==
    /\ ~sync.button
    /\ sync.after_id
    /\ sync' = run_sync_in_thread([sync EXCEPT !.after_id = FALSE])
    /\ SyncFrame

\* _run of start_auto_sync_loop: the loop's timer goes off and is set again
AutoRun ==
    /\ ~sync.button
    /\ sync.auto_after_id
    /\ sync' = IF ~sync.auto_sync_on THEN [sync EXCEPT !.auto_after_id = FALSE]
               ELSE run_sync_in_thread(sync)
    /\ sync' # sync
    /\ SyncFrame

\* save_settings: the checkbox is stored and start_auto_sync_loop called
SaveSettings(on) ==
    /\ ~sync.button
    /\ sync' = [sync EXCEPT !.auto_sync_on = on, !.auto_after_id = on]
    /\ sync' # sync
    /\ SyncFrame

\* worker: _export_sync_core reads the five tables
WorkerRead ==
    /\ sync.worker = "started"
    /\ sync' = [sync EXCEPT !.worker = "read", !.seen = Max2(@, sync.calls)]
    /\ SyncFrame

\* worker: upload_visible_data has written the snapshot; root.after(0,
\* ui_update) queues the callback and the thread ends
WorkerDone ==
    /\ sync.worker = "read"
    /\ sync' = [sync EXCEPT !.worker = "callback"]
    /\ SyncFrame

\* ui_update
UiUpdate ==
    /\ ~sync.button
    /\ sync.worker = "callback"
    /\ sync' = [sync EXCEPT !.worker = "none", !.inflight = FALSE]
    /\ SyncFrame

\* export_sync (the button): _export_sync_core on the window's thread,
\* which reads the tables ...
ExportSyncRead ==
    /\ ~sync.button
    /\ sync' = [sync EXCEPT !.button = TRUE, !.seen = Max2(@, sync.calls)]
    /\ SyncFrame

\* ... and writes the snapshot
ExportSyncDone ==
    /\ sync.button
    /\ sync' = [sync EXCEPT !.button = FALSE]
    /\ SyncFrame

InitSync ==
    /\ properties = {} /\ photos = {} /\ viewings = {} /\ tasks = {}
    /\ nextId = [properties |-> 1, photos |-> 1, viewings |-> 1, tasks |-> 1]
    /\ now = T0
    /\ lastRet = NoOutcome /\ runs = 0 /\ armed = 0 /\ upsertHit = 0
    /\ passes = [t \in Threads |-> IdlePass]
    /\ desiredOut = NotComputed
    /\ customers = {} /\ response = NoResponse /\ matching = NotMatched
    /\ money = NoMoney /\ exported = NoExport /\ listCall = NoCall
    /\ \E on \in BOOLEAN :
          sync = [SyncIdle EXCEPT !.auto_sync_on = on, !.auto_after_id = on]
    /\ window = WindowIdle
    /\ audit = NoAudit

NextSync ==
    \/ RequestSync
    \/ Fire
    \/ AutoRun
    \/ \E on \in BOOLEAN : SaveSettings(on)
    \/ WorkerRead
    \/ WorkerDone
    \/ UiUpdate
    \/ ExportSyncRead
    \/ ExportSyncDone

SpecSync == InitSync /\ [][NextSync]_vars

\* the window left to itself after the changes: nobody presses the button
\* or saves the settings
NextUnattended ==
    \/ RequestSync
    \/ Fire
    \/ AutoRun
    \/ WorkerRead
    \/ WorkerDone
    \/ UiUpdate

\* every timer that is set goes off, the worker thread runs to its end and
\* the window's thread gets to its queued callbacks; a change (request_sync)
\* is under no obligation to happen
SpecSyncFair ==
    /\ InitSync /\ [][NextUnattended]_vars
    /\ WF_vars(Fire) /\ WF_vars(AutoRun)
    /\ WF_vars(WorkerRead) /\ WF_vars(WorkerDone)
    /\ WF_vars(UiUpdate)

----------------------------------------------------------------------------
(* desktop_app.py: hiding, editing and undoing in the window.  Each action *)
(* is one handler: the store call, the undo slot, request_sync and         *)
(* refresh_all, which reconciles (and swallows what that raises).          *)

\* toggle_customer_hidden: hidden = CASE WHEN hidden=1 THEN 0 ELSE 1 END
toggle_customer_hidden(rows, id) ==
    {IF r.id = id THEN [r EXCEPT !.hidden = IF r.hidden = 1 THEN 0 ELSE 1]
     ELSE r : r \in rows}

\* update_customer: the UPDATE's values for the columns modelled here, each
\* taken from the payload when it has the key and from the row otherwise
update_customer(rows, id, data) ==
    {IF r.id # id THEN r
     ELSE [r EXCEPT
             !.preferred_tab = Get(data, "preferred_tab", r.preferred_tab),
             !.preferred_area = Get(data, "preferred_area", r.preferred_area),
             !.preferred_pyeong = Get(data, "preferred_pyeong", r.preferred_pyeong),
             !.deal_type = Get(data, "deal_type", r.deal_type),
             !.view_preference = Get(data, "view_preference", r.view_preference),
             !.location_preference =
                 Get(data, "location_preference", r.location_preference),
             !.floor_preference = Get(data, "floor_preference", r.floor_preference)]
     : r \in rows}

\* refresh_all: reconcile_auto_tasks() on the store as the handler left it
RefreshAll(props, ids) ==
    \E plist \in list_properties(props), vlist \in list_viewings(viewings) :
        LET r == reconcile_auto_tasks(tasks, ids.tasks, plist, photos, vlist,
                                      now, NoFault)
        IN  /\ (ids.properties - 1) + (r.next - 1) <= MaxRows
            /\ tasks' = r.rows
            /\ nextId' = [ids EXCEPT !.tasks = r.next]
            /\ lastRet' = r.ret
            /\ runs' = 1 /\ armed' = 0 /\ upsertHit' = 0

WindowFrame ==
    UNCHANGED <<photos, viewings, now, passes, desiredOut, response, matching,
                money, exported, listCall, audit>>

\* the registration wizard's save: add_property(data), request_sync
SaveNewProperty(data) ==
    /\ sync.calls < MaxRequests
    /\ properties' = properties \cup {add_property(nextId.properties, data)}
    /\ sync' = request_sync(sync)
    /\ RefreshAll(properties', [nextId EXCEPT !.properties = @ + 1])
    /\ window' = [window EXCEPT !.last = "save_new_property"]
    /\ UNCHANGED customers
    /\ WindowFrame

\* the customer wizard's save: add_customer(payload), request_sync
SaveNewCustomer(data) ==
    /\ sync.calls < MaxRequests
    /\ Cardinality(customers) < MaxCustomers
    /\ customers' = customers \cup
                      {add_customer(Cardinality(customers) + 1, data)}
    /\ sync' = request_sync(sync)
    /\ RefreshAll(properties, nextId)
    /\ window' = [window EXCEPT !.last = "save_new_customer"]
    /\ UNCHANGED properties
    /\ WindowFrame

\* toggle_selected_property, and toggle_hide of the detail window
ToggleSelectedProperty(id) ==
    /\ sync.calls < MaxRequests
    /\ \E before \in {r \in properties : r.id = id} :
          window' = [undo |-> [NoUndo EXCEPT !.action = "PROPERTY_HIDE",
                                             !.id = id,
                                             !.before_hidden = before.hidden],
                     last |-> "toggle_selected_property"]
    /\ properties' = toggle_property_hidden(properties, id)
    /\ sync' = request_sync(sync)
    /\ RefreshAll(properties', nextId)
    /\ UNCHANGED customers
    /\ WindowFrame

\* toggle_selected_customer (which makes no request_sync call)
ToggleSelectedCustomer(id) ==
    /\ \E before \in {r \in customers : r.id = id} :
          window' = [undo |-> [NoUndo EXCEPT !.action = "CUSTOMER_HIDE",
                                             !.id = id,
                                             !.before_hidden = before.hidden],
                     last |-> "toggle_selected_customer"]
    /\ customers' = toggle_customer_hidden(customers, id)
    /\ RefreshAll(properties, nextId)
    /\ UNCHANGED <<properties, sync>>
    /\ WindowFrame

\* the form of the detail window, filled from the row: every column it has
FormOf(r) ==
    [tab |-> r.tab, complex_name |-> r.complex_name, unit_type |-> r.unit_type,
     area |-> r.area, address_detail |-> r.address_detail, floor |-> r.floor,
     repair_needed |-> (r.repair_needed = 1), status |-> r.status]

\* save_changes of the detail window with another status chosen
SaveChanges(id, status) ==
    /\ sync.calls < MaxRequests
    /\ \E before \in {r \in properties : r.id = id} :
          /\ before.status # status
          /\ properties' = update_property(properties, id,
                                           [FormOf(before) EXCEPT !.status = status])
          /\ window' = [undo |-> [NoUndo EXCEPT !.action = "PROPERTY_STATUS",
                                                !.id = id,
                                                !.before_status = before.status],
                        last |-> "save_changes"]
    /\ sync' = request_sync(sync)
    /\ RefreshAll(properties', nextId)
    /\ UNCHANGED customers
    /\ WindowFrame

\* _undo_last_action with something in the slot
UndoLastAction ==
    LET payload == window.undo IN
    /\ payload # NoUndo
    /\ sync.calls < MaxRequests
    /\ properties' =
          CASE payload.action = "PROPERTY_HIDE" ->
                  update_property(properties, payload.id,
                                  [hidden |-> payload.before_hidden])
            [] payload.action = "PROPERTY_STATUS" ->
                  update_property(properties, payload.id,
                                  [status |-> payload.before_status])
            [] OTHER -> properties
    /\ customers' =
          IF payload.action = "CUSTOMER_HIDE"
          THEN update_customer(customers, payload.id,
                               [hidden |-> payload.before_hidden])
          ELSE customers
    /\ sync' = request_sync(sync)
    /\ RefreshAll(properties', nextId)
    /\ window' = [undo |-> NoUndo, last |-> "undo_last_action"]
    /\ WindowFrame

\* what the wizard saves: a property under repair, one with a name of its
\* own under a structured tab, a hidden one
WindowPayloads ==
    {[tab |-> "Sangga", complex_name |-> "", unit_type |-> "84A",
      area |-> <<84>>, address_detail |-> "101-1203", floor |-> "3",
      status |-> StatusNew, hidden |-> FALSE, repair_needed |-> TRUE],
     [MissingInfo EXCEPT !.complex_name = "Xi 2"],
     [CompleteInfo EXCEPT !.hidden = TRUE]}

NextWindow ==
    \/ \E data \in WindowPayloads : SaveNewProperty(data)
    \/ SaveNewCustomer([customer_name |-> "Kim"])
    \/ \E id \in Ids(properties) : ToggleSelectedProperty(id)
    \/ \E id \in Ids(customers) : ToggleSelectedCustomer(id)
    \/ \E id \in Ids(properties) : SaveChanges(id, StatusContractDone)
    \/ UndoLastAction

SpecWindow == Init /\ [][NextWindow]_vars

----------------------------------------------------------------------------
(* storage.py: the writes together with the audit_log row each of them     *)
(* inserts.  A write runs on its own connection and commits at its end;    *)
(* get_property / get_task open a second connection, which reads the       *)
(* table as committed, not the writer's pending statement.  json.dumps     *)
(* keeps every column of the row, so the JSON text is modelled by the row. *)

\* get_property(id, include_deleted=True) / get_task(id) on the table a
\* connection sees
get_row(rows, id) == {r \in rows : r.id = id}

\* _audit(conn, entity_type, entity_id, action, before, after)
AuditRow(entity_type, entity_id, action, before, after) ==
    [entity_type |-> entity_type, entity_id |-> entity_id, action |-> action,
     before |-> before, after |-> after]

AuditFrame ==
    UNCHANGED <<photos, viewings, now, passes, desiredOut, customers,
                response, matching, money, exported, listCall, sync, window>>

\* add_property
AuditedAddProperty(data) ==
    /\ Room(1)
    /\ properties' = properties \cup {add_property(nextId.properties, data)}
    /\ nextId' = [nextId EXCEPT !.properties = @ + 1]
    /\ audit' = AuditRow("PROPERTY", nextId.properties, "CREATE", {},
                         get_row(properties, nextId.properties))
    /\ Written
    /\ UNCHANGED tasks
    /\ AuditFrame

\* update_property
AuditedUpdateProperty(id, data) ==
    /\ get_row(properties, id) # {}
    /\ properties' = update_property(properties, id, data)
    /\ audit' = AuditRow("PROPERTY", id, "UPDATE", get_row(properties, id),
                         get_row(properties, id))
    /\ Written
    /\ UNCHANGED <<tasks, nextId>>
    /\ AuditFrame

\* soft_delete_property
AuditedSoftDeleteProperty(id) ==
    /\ properties' = soft_delete_property(properties, id)
    /\ audit' = AuditRow("PROPERTY", id, "SOFT_DELETE", get_row(properties, id),
                         get_row(properties, id))
    /\ Written
    /\ UNCHANGED <<tasks, nextId>>
    /\ AuditFrame

\* add_task (an IntegrityError leaves the call before its audit row)
AuditedAddTask(d) ==
    /\ Room(1)
    /\ LET r == add_task(tasks, nextId.tasks, d)
       IN  /\ tasks' = r.rows
           /\ nextId' = IF r.ok THEN [nextId EXCEPT !.tasks = @ + 1] ELSE nextId
           /\ audit' = IF r.ok
                       THEN AuditRow("TASK", nextId.tasks, "CREATE", {},
                                     get_row(tasks, nextId.tasks))
                       ELSE audit
    /\ Written
    /\ UNCHANGED properties
    /\ AuditFrame

\* upsert_task_unique: before and the row's id are read on the writing
\* connection, after through get_task
AuditedUpsertTaskUnique(d) ==
    /\ LET u == upsert_task_unique(tasks, nextId.tasks, d)
           task_id == before_id(u.rows, d.unique_key)
       IN  /\ u.inserted => Room(1)
           /\ tasks' = u.rows
           /\ nextId' = IF u.inserted THEN [nextId EXCEPT !.tasks = @ + 1]
                        ELSE nextId
           /\ audit' = AuditRow("TASK", task_id, "UPSERT",
                                {r \in tasks : r.unique_key = d.unique_key},
                                get_row(tasks, task_id))
    /\ upsertHit' = before_id(tasks, d.unique_key)
    /\ lastRet' = NoOutcome /\ runs' = 0 /\ armed' = 0
    /\ UNCHANGED properties
    /\ AuditFrame

\* set_task_status
AuditedSetTaskStatus(id, status) ==
    /\ tasks' = set_task_status(tasks, id, status)
    /\ audit' = AuditRow("TASK", id, "STATUS", get_row(tasks, id),
                         get_row(tasks, id))
    /\ Written
    /\ UNCHANGED <<properties, nextId>>
    /\ AuditFrame

NextAudit ==
    \/ \E data \in PropertyPayloads : AuditedAddProperty(data)
    \/ \E id \in Ids(properties) : AuditedUpdateProperty(id, FloorEdit)
    \/ \E id \in Ids(properties) : AuditedSoftDeleteProperty(id)
    \/ \E d \in StoreTaskPayloads : AuditedAddTask(d)
    \/ \E d \in UpsertPayloads : AuditedUpsertTaskUnique(d)
    \/ \E id \in Ids(tasks), status \in {"OPEN", "DONE"} :
          AuditedSetTaskStatus(id, status)

SpecAudit == Init /\ [][NextAudit]_vars

----------------------------------------------------------------------------
(* The conversions called on their own *)

\* the amounts converted: small ones, a few negative ones, and the ones
\* around 2^53
MoneyInputs ==
    {Amount(n) : n \in (0 - 3)..MaxAmount}
    \cup {W(Pow53.hi, Pow53.lo + d) : d \in (0 - 4)..MaxAmount}

InitMoney ==
    /\ properties = {} /\ photos = {} /\ viewings = {} /\ tasks = {}
    /\ nextId = [properties |-> 1, photos |-> 1, viewings |-> 1, tasks |-> 1]
    /\ now = T0
    /\ lastRet = NoOutcome /\ runs = 0 /\ armed = 0 /\ upsertHit = 0
    /\ passes = [t \in Threads |-> IdlePass]
    /\ desiredOut = NotComputed
    /\ customers = {} /\ response = NoResponse /\ matching = NotMatched
    /\ money \in {[NoMoney EXCEPT !.n = n] : n \in MoneyInputs}
    /\ exported = NoExport
    /\ listCall = NoCall
    /\ sync = SyncIdle
    /\ window = WindowIdle
    /\ audit = NoAudit

Frame ==
    UNCHANGED <<properties, photos, viewings, tasks, nextId, now, lastRet,
                runs, armed, upsertHit, passes, desiredOut, customers,
                response, matching>>

MoneyFrame == Frame /\ UNCHANGED <<exported, listCall, sync, window, audit>>

\* eok_che_to_ten_million(*ten_million_to_eok_che(n))
SplitAndCombine ==
    /\ LET pair == ten_million_to_eok_che(money.n)
       IN  money' = [op |-> "eok_che", n |-> money.n, mid |-> pair.eok,
                     che |-> pair.che,
                     out |-> eok_che_to_ten_million_wide(pair.eok, pair.che)]
    /\ MoneyFrame

\* ten_man_to_man(man_to_ten_man(m))
ManToTenManAndBack ==
    /\ LET mid == man_to_ten_man_wide(money.n)
       IN  money' = [op |-> "man", n |-> money.n, mid |-> mid, che |-> 0,
                     out |-> ten_man_to_man(mid)]
    /\ MoneyFrame

\* man_to_ten_man(ten_man_to_man(k))
TenManToManAndBack ==
    /\ LET mid == ten_man_to_man(money.n)
       IN  money' = [op |-> "ten_man", n |-> money.n, mid |-> mid, che |-> 0,
                     out |-> man_to_ten_man_wide(mid)]
    /\ MoneyFrame

NextMoney ==
    \/ SplitAndCombine
    \/ ManToTenManAndBack
    \/ TenManToManAndBack

SpecMoney == InitMoney /\ [][NextMoney]_vars

----------------------------------------------------------------------------
(* What the claims speak of *)

\* the keys of the desired set of the store as it is now (the key set does
\* not depend on the order the rows are listed in; none when the evaluation
\* raises)
CurrentKeys ==
    IF \E v \in viewings : ViewingRaises(v) THEN {}
    ELSE UNION {Keys(PropTasks(p, photos)) : p \in {r \in properties : r.deleted = 0}}
         \cup UNION {Keys(ViewingTasks(v, now)) : v \in viewings}

\* a fault-free call has returned a count and nothing was written since
\* (runs counts the fault-free calls made in a row since the last write, so a
\* step with runs' >= 1 is such a call)
Settled == runs >= 1 /\ lastRet >= 0

NoDuplicateKeys ==
    \A r1 \in tasks, r2 \in tasks :
        r1.unique_key = r2.unique_key /\ r1.unique_key # NullKey => r1 = r2

RowsOf(rows, key) == {r \in rows : r.unique_key = key}

----------------------------------------------------------------------------
(* C1 *)

\* C1: a reconcile_auto_tasks call that directly follows a fault-free call,
\* with nothing written and no time passed in between, returns the same
\* outcome, leaves the tasks table as the first call left it, and leaves no
\* two rows with the same unique_key.
C1_Idempotent ==
    [][(runs >= 1 /\ runs' >= 1 /\ ReconcileCall)
         => (tasks' = tasks /\ lastRet' = lastRet /\ NoDuplicateKeys')]_vars

\* a second call in a row has returned, with open and resolved auto-tasks
C1_Witness ==
    /\ runs = 2 /\ lastRet >= 1
    /\ \E r \in tasks : LikeAuto(r.kind) /\ r.status = "DONE"

----------------------------------------------------------------------------
(* C2 *)

\* after a pass the given rows are OPEN exactly when their key is desired,
\* and every desired key has exactly one row
OpenIffDesired(rows) ==
    Settled =>
        /\ \A r \in rows :
              r.status = (IF r.unique_key \in CurrentKeys THEN "OPEN" ELSE "DONE")
        /\ \A k \in CurrentKeys :
              /\ Cardinality(RowsOf(tasks, k)) = 1
              /\ \A r \in RowsOf(tasks, k) : r.status = "OPEN"

----------------------------------------------------------------------------
(* C3 *)

ArmedRow == CHOOSE r \in tasks : r.id = armed

ArmedProperty == CHOOSE p \in properties : p.id = ArmedRow.unique_key[2]

----------------------------------------------------------------------------
(* C4 *)

\* an upsert_task_unique call on a key that has a row keeps the set of ids
\* and leaves under the row's id the row with the call's fields
UpsertKeepsRow(d) ==
    (UpsertTaskUnique(d) /\ RowsOf(tasks, d.unique_key) # {})
        => /\ Ids(tasks') = Ids(tasks)
           /\ \A r \in RowsOf(tasks, d.unique_key) :
                 TaskRow(r.id, d) \in tasks'

\* a reconcile call leaves every keyed row under its id and key
ReconcileKeepsRows ==
    ReconcileCall =>
        \A r \in tasks : r.unique_key # NullKey =>
            \E r2 \in tasks' : r2.id = r.id /\ r2.unique_key = r.unique_key

\* C4: in every state reached by add_task, upsert_task_unique,
\* set_task_status, delete_task and reconcile_auto_tasks calls no two rows
\* share a non-null unique_key, and an upsert on a key that has a row updates
\* that row, whose id stays, and inserts none.
C4_UniqueKey ==
    /\ []NoDuplicateKeys
    /\ [][(\A d \in UpsertPayloads : UpsertKeepsRow(d)) /\ ReconcileKeepsRows]_vars

\* an upsert has just updated, under its id, a row that was inserted before
\* another one, and none was added
C4_Witness ==
    /\ upsertHit = 1 /\ nextId.tasks = 3
    /\ \E r \in tasks : r.id = 1 /\ r.unique_key = ManualKey /\ r.kind = "AUTO"
    /\ \E r \in tasks : r.id = 2 /\ r.unique_key = <<"AUTO_PROP_PHOTO", 1>>

----------------------------------------------------------------------------
(* C5 *)

ManualRows(rows) == {r \in rows : r.kind = "MANUAL"}

----------------------------------------------------------------------------
(* C6 *)

\* what C6 promises of a call that met `fault`: every desired key but the one
\* whose upsert raised is OPEN, every obsolete row but the one whose
\* set_task_status raised is DONE
RestProcessed(plist, vlist, fault) ==
    LET d == compute_desired_auto_tasks(plist, photos, vlist, now)
        obsolete == Obsolete(list_auto_tasks(tasks, TRUE), Keys(d.tasks))
    IN  /\ \A i \in 1..Len(d.tasks) :
              (fault.op = "upsert" /\ fault.at = i)
              \/ \E r \in tasks' : /\ r.unique_key = d.tasks[i].unique_key
                                   /\ r.status = "OPEN"
        /\ \A o \in obsolete :
              (fault.op = "status" /\ fault.at = o.id)
              \/ \E r \in tasks' : r.id = o.id /\ r.status = "DONE"

\* C6: when one upsert_task_unique call or one set_task_status call raises
\* during a pass, every other desired key ends up OPEN and every other
\* obsolete OPEN auto-task ends up DONE.
C6_RestProcessed ==
    [][\A plist \in list_properties(properties), vlist \in list_viewings(viewings) :
         \A fault \in Faults(plist, vlist) \ {NoFault} :
            Reconcile(plist, vlist, fault) => RestProcessed(plist, vlist, fault)]_vars


\* every row the model's property can be in: as registered, and as edited
PropertyVersions(id) ==
    LET p0 == add_property(id, MissingInfo)
    IN  {p0} \cup update_property({p0}, id, FloorEdit)

\* every single write a keyed row of the concurrent runs can come from: an
\* upsert of a desired task of some version of a property, or the add_task
WritesOf(id) ==
    {TaskRow(id, KeyedManual)}
    \cup UNION {{TaskRow(id, PropInfoTask(p)), TaskRow(id, PropPhotoTask(p))}
                : p \in UNION {PropertyVersions(pid) : pid \in Ids(properties)}}

\* the row with the status column (which set_task_status writes on its own)
\* put aside
SansStatus(r) == [r EXCEPT !.status = "OPEN"]

\* C7: when two reconcile passes run concurrently, interleaved in any order
\* at the store calls, the task table never holds two rows with the same
\* unique_key, and every keyed row carries the fields of one single write
C7_ConcurrentPasses ==
    /\ NoDuplicateKeys
    /\ \A r \in tasks :
          Truthy(r.unique_key) =>
             \E w \in WritesOf(r.id) : SansStatus(w) = SansStatus(r)

\* both threads are inside their upsert loops, each has upserted its first
\* desired task, and the two computed different fields for it
C7_Witness ==
    /\ \A t \in Threads : passes[t].pc = "upsert" /\ passes[t].i = 2
    /\ passes["t1"].dseq[1].unique_key = passes["t2"].dseq[1].unique_key
    /\ passes["t1"].dseq[1].title # passes["t2"].dseq[1].title
    /\ \E r \in tasks : r.unique_key = passes["t1"].dseq[1].unique_key


----------------------------------------------------------------------------
(* C8, C9, C10: the rules of the evaluator *)

\* the keys of the last evaluation (none when it raised)
OutKeys == Keys(desiredOut.tasks)

ScheduledAt(v) == Strip(v.status) = Scheduled /\ parse_dt(v.start_at).ok

\* no evaluation that returned holds both the OVERDUE and the PREP key of a
\* viewing
NeverOverdueAndPrep ==
    \A v \in viewings :
        ~ (<<"AUTO_VIEWING_OVERDUE", v.id>> \in OutKeys
           /\ <<"AUTO_VIEWING_PREP", v.id>> \in OutKeys)

\* C8: for every viewing and every now, the desired set never holds both
\* AUTO_VIEWING_OVERDUE:{id} and AUTO_VIEWING_PREP:{id}, and a scheduled
\* viewing whose start is more than one hour before now yields the OVERDUE key
\* and no PREP key.
C8_OverdueNotPrep ==
    desiredOut.done =>
        /\ NeverOverdueAndPrep
        /\ \A v \in viewings :
              (ScheduledAt(v)
               /\ parse_dt(v.start_at).t < desiredOut.clock - OverdueGrace)
                 => /\ <<"AUTO_VIEWING_OVERDUE", v.id>> \in OutKeys
                    /\ <<"AUTO_VIEWING_PREP", v.id>> \notin OutKeys

\* the window C9 states: from now to now + 24h, both included
IsUpcomingFromNow(start, clock) == start >= clock /\ start <= clock + PrepWindow

\* C9: an evaluation that returns holds AUTO_VIEWING_PREP:{id} exactly when
\* the viewing is scheduled and its start parses and lies between now and
\* now + 24h inclusive.
C9_PrepWindow ==
    (desiredOut.done /\ ~ desiredOut.raised) =>
        \A v \in viewings :
            <<"AUTO_VIEWING_PREP", v.id>> \in OutKeys
              <=> (ScheduledAt(v)
                   /\ IsUpcomingFromNow(parse_dt(v.start_at).t, desiredOut.clock))

\* the contract-done status: the value the store records, and the value it
\* rewrites to it
IsContractDone(status) == status \in {StatusContractDone, LegacyDealDone}

\* C10: an evaluation that returns holds AUTO_PROP_PHOTO:{id} for a visible
\* property exactly when its status is not contract-done and it has zero
\* photos or the legacy needs-photo status.
C10_PhotoRule ==
    (desiredOut.done /\ ~ desiredOut.raised) =>
        \A p \in properties :
            (p.hidden = 0 /\ p.deleted = 0) =>
                (<<"AUTO_PROP_PHOTO", p.id>> \in OutKeys
                   <=> (/\ ~ IsContractDone(p.status)
                        /\ (photo_count(photos, p.id) = 0
                            \/ p.status = LegacyNeedsPhoto)))


----------------------------------------------------------------------------
(* C11 *)

PropertyKinds == {"AUTO_PROP_INFO", "AUTO_PROP_PHOTO"}

\* C11: after any sequence of property edits, toggle_property_hidden,
\* soft_delete_property and restore_property followed by a reconcile pass, no
\* OPEN AUTO_PROP_INFO or AUTO_PROP_PHOTO task refers to a property that is
\* hidden or deleted.
C11_NoTaskOfHidden ==
    Settled =>
        \A r \in tasks :
            (r.status = "OPEN" /\ r.kind \in PropertyKinds)
              => \E p \in properties :
                    p.id = r.entity_id /\ p.hidden = 0 /\ p.deleted = 0

\* a pass has resolved the property tasks of a hidden property and of a
\* deleted one
C11_Witness ==
    /\ Settled
    /\ \E p \in properties, r \in tasks :
          /\ p.hidden = 1 /\ p.deleted = 0
          /\ r.kind \in PropertyKinds /\ r.entity_id = p.id /\ r.status = "DONE"
    /\ \E p \in properties, r \in tasks :
          /\ p.deleted = 1
          /\ r.kind \in PropertyKinds /\ r.entity_id = p.id /\ r.status = "DONE"


----------------------------------------------------------------------------
(* C13 *)

\* C13: compute_desired_auto_tasks returns without raising for every
\* start_at text; a start that does not parse gives its viewing neither the
\* OVERDUE nor the PREP key, and every property is still evaluated.
C13_NeverRaises ==
    desiredOut.done =>
        /\ ~ desiredOut.raised
        /\ \A v \in viewings :
              ~ parse_dt(v.start_at).ok
                => /\ <<"AUTO_VIEWING_OVERDUE", v.id>> \notin OutKeys
                   /\ <<"AUTO_VIEWING_PREP", v.id>> \notin OutKeys
        /\ \A p \in properties : Keys(PropTasks(p, photos)) \subseteq OutKeys


----------------------------------------------------------------------------
(* C15 *)

OpenAutoRows == {r \in tasks : HasAutoPrefix(r.kind) /\ r.status = "OPEN"}

----------------------------------------------------------------------------
(* C16 *)

\* the rows of the last call's candidate list, and the ids it returned
CandidateRows == {matching.plist[i] : i \in 1..Len(matching.plist)}
ResultIds == {matching.result[i].property_id : i \in 1..Len(matching.result)}
\* a call whose limit cuts nothing off
Untruncated == matching.done /\ matching.limit = DefaultLimit
Offers(p) ==
    {d \in {Sale, Jeonse, Wolse} :
        \/ d = Sale /\ p.deal_sale = 1
        \/ d = Jeonse /\ p.deal_jeonse = 1
        \/ d = Wolse /\ p.deal_wolse = 1}
StatedDeals == Get(matching.customer, "deal_type", <<>>)

\* C16: a candidate that passes the tab filter is returned exactly when the
\* customer's parsed deal-type set is empty or shares a deal type with the
\* ones the candidate offers; "jeonse,wolse" and "jeonse, wolse" both return
\* exactly the jeonse-only and the monthly-only candidates among the
\* single-deal ones, and an empty deal_type returns every candidate.
C16_DealFilter ==
    Untruncated =>
        \A p \in CandidateRows :
            TabPasses(matching.customer, p) =>
                /\ p.id \in ResultIds
                     <=> \/ parse_deal_types(StatedDeals) = {}
                         \/ parse_deal_types(StatedDeals) \cap Offers(p) # {}
                /\ (StatedDeals \in {<<Jeonse, Wolse>>, <<Jeonse, " wolse">>}
                    /\ Cardinality(Offers(p)) = 1)
                     => (p.id \in ResultIds <=> Offers(p) # {Sale})
                /\ StatedDeals = <<>> => p.id \in ResultIds

C16_Witness ==
    /\ Untruncated
    /\ StatedDeals = <<Jeonse, " wolse">>
    /\ Len(matching.plist) = 2
    /\ Offers(matching.plist[1]) = {Sale}
    /\ Offers(matching.plist[2]) = {Wolse}
    /\ ResultIds = {2}

----------------------------------------------------------------------------
(* C17 *)

ScoreOf(id) ==
    (CHOOSE r \in {matching.result[i] : i \in 1..Len(matching.result)} :
        r.property_id = id).score
Budget == to_int(Get(matching.customer, "budget_10m", <<>>), 0)
SalePrice(p) == eok_che_to_ten_million(p.price_sale_eok, p.price_sale_che)
JeonsePrice(p) == eok_che_to_ten_million(p.price_jeonse_eok, p.price_jeonse_che)
SansSalePrice(p) ==
    [p EXCEPT !.id = 0, !.price_sale_eok = <<>>, !.price_sale_che = <<>>]
\* the call was made with a positive budget over two candidates alike in
\* everything but the sale price, the first within the budget, the second over
BudgetPair ==
    /\ Untruncated
    /\ Budget > 0
    /\ Len(matching.plist) = 2
    /\ SansSalePrice(matching.plist[1]) = SansSalePrice(matching.plist[2])
    /\ SalePrice(matching.plist[1]) <= Budget
    /\ SalePrice(matching.plist[2]) > Budget
\* the sale price is the price the budget rule compares
SalePriceCompared ==
    /\ Sale \in parse_deal_types(StatedDeals) \cap Offers(matching.plist[1])
    /\ \/ Jeonse \notin parse_deal_types(StatedDeals) \cap Offers(matching.plist[1])
       \/ JeonsePrice(matching.plist[1]) > Budget

\* C17 as stated: of two candidates alike but for the sale price, one within
\* a positive budget and one over it, the cheaper gets the strictly higher
\* score.
C17_Original ==
    (BudgetPair /\ ResultIds = {1, 2}) => ScoreOf(1) > ScoreOf(2)

\* C17 amended: the cheaper gets the strictly higher score when the customer
\* asks for sale, the candidates offer it, and no jeonse price within the
\* budget is compared in its place; in every other case both are returned
\* or both dropped, and when returned their scores are equal.
C17_BudgetMonotone ==
    BudgetPair =>
        /\ ResultIds \in {{}, {1, 2}}
        /\ ResultIds = {1, 2} =>
             IF SalePriceCompared THEN ScoreOf(1) > ScoreOf(2)
             ELSE ScoreOf(1) = ScoreOf(2)
        /\ SalePriceCompared => ResultIds = {1, 2}

C17_Witness ==
    /\ BudgetPair /\ SalePriceCompared
    /\ StatedDeals = <<Sale>>
    /\ ScoreOf(1) = 47 /\ ScoreOf(2) = 29

----------------------------------------------------------------------------
(* C18 *)

\* the candidates of the last call that pass both filters
Surviving ==
    {p \in CandidateRows :
        TabPasses(matching.customer, p) /\ DealPasses(matching.customer, p)}

\* C18: the result is ordered by score from highest to lowest, entries with
\* equal scores in input order (ids follow the input order), and it has
\* min(n, limit) entries for limit >= 0 and none for limit <= 0, n being the
\* number of surviving candidates.
C18_RankedAndTruncated ==
    matching.done =>
        /\ \A i, j \in 1..Len(matching.result) :
              i < j =>
                /\ matching.result[i].score >= matching.result[j].score
                /\ matching.result[i].score = matching.result[j].score
                     => matching.result[i].property_id
                          < matching.result[j].property_id
        /\ Len(matching.result) =
              IF matching.limit > 0
              THEN Min2(Cardinality(Surviving), matching.limit)
              ELSE 0

----------------------------------------------------------------------------
(* C19 *)

RentBudget == to_int(Get(matching.customer, "wolse_rent_10man", <<>>), 0)
\* the property's monthly rent in 10-man-won units
RentOf(p) == Max2(0, to_int(p.wolse_rent_man, 0) \div 10)
\* the score of a candidate from every rule but the monthly-rent one
ScoreSansRent(p) ==
    SumRules(<<DealRule(matching.customer, p), AreaRule(matching.customer, p),
               PyeongRule(matching.customer, p), FloorRule(matching.customer, p),
               KeywordRule(matching.customer, p, "view_preference", "view"),
               KeywordRule(matching.customer, p, "location_preference", "location"),
               ConditionRule(p),
               IF BudgetApplies(matching.customer, p)
               THEN BudgetRule(matching.customer, p) ELSE Rule(0, <<>>)>>).score

\* C19: every returned candidate whose deal overlap with the customer
\* includes monthly rent, the customer's rent budget being positive, has its
\* rent compared with that budget: within the budget it gains 16 and the
\* reason for it, over the budget it loses min(20, excess), whether or not
\* the sale / jeonse budget rule applied to it as well.
C19_RentRuleApplies ==
    (Untruncated /\ RentBudget > 0) =>
        \A i \in 1..Len(matching.result) :
            LET r == matching.result[i]
                p == r.property_row
                has == \E k \in 1..Len(r.reasons) : r.reasons[k] = "rent budget"
            IN  Wolse \in parse_deal_types(StatedDeals) \cap Offers(p) =>
                  IF RentOf(p) <= RentBudget
                  THEN has /\ r.score = ScoreSansRent(p) + 16
                  ELSE ~ has /\ r.score = ScoreSansRent(p)
                                   - Min2(20, RentOf(p) - RentBudget)

----------------------------------------------------------------------------
(* C20 *)

\* the customer of the last call states no preference: every preference
\* field is missing or empty and the budgets are missing or 0
NoPreferences ==
    LET c == matching.customer
    IN  /\ \A i \in 1..Len(Get(c, "preferred_tab", <<>>)) :
              Strip(c.preferred_tab[i]) = ""
        /\ \A i \in 1..Len(Get(c, "deal_type", <<>>)) : Strip(c.deal_type[i]) = ""
        /\ Get(c, "preferred_area", EmptyText).shape = "empty"
        /\ Get(c, "preferred_pyeong", EmptyText).shape = "empty"
        /\ Get(c, "floor_preference", {}) = {}
        /\ Strip(Get(c, "view_preference", "")) = ""
        /\ Strip(Get(c, "location_preference", "")) = ""
        /\ Get(c, "budget_10m", <<>>) \in {<<>>, <<0>>}
        /\ Get(c, "wolse_rent_10man", <<>>) \in {<<>>, <<0>>}

\* C20 as stated: for a customer with no preferences every candidate is
\* returned, with the score 5 + 5 of the two flat fallback bonuses and no
\* reasons.
C20_Original ==
    (Untruncated /\ NoPreferences) =>
        /\ ResultIds = {p.id : p \in CandidateRows}
        /\ \A i \in 1..Len(matching.result) :
              /\ matching.result[i].score = 10
              /\ matching.result[i].reasons = <<>>

\* C20 amended: for a customer with no preferences every candidate is
\* returned with no reasons, and its score is the two flat fallback bonuses
\* 5 + 5 plus the weight of the property's own condition: 4 for the high
\* grade, 2 for the middle one, 0 otherwise.
C20_FallbackAndCondition ==
    (Untruncated /\ NoPreferences) =>
        /\ ResultIds = {p.id : p \in CandidateRows}
        /\ \A i \in 1..Len(matching.result) :
              /\ matching.result[i].score =
                    10 + (CASE matching.result[i].property_row.condition = "sang" -> 4
                            [] matching.result[i].property_row.condition = "jung" -> 2
                            [] OTHER -> 0)
              /\ matching.result[i].reasons = <<>>

C20_Witness ==
    /\ Untruncated /\ NoPreferences
    /\ "budget_10m" \in DOMAIN matching.customer
    /\ Len(matching.result) = 2
    /\ matching.result[1].score = 14 /\ matching.result[1].property_id = 2
    /\ matching.result[2].score = 10

----------------------------------------------------------------------------
(* C12 *)

\* C12: the matches of the last answer of GET /matching/{customer_id} or
\* POST /proposal/message/{customer_id} hold only properties with hidden = 0
\* and deleted = 0.
C12_NoHiddenMatch ==
    \A i \in 1..Len(response.matches) :
        /\ response.matches[i].property.hidden = 0
        /\ response.matches[i].property.deleted = 0

----------------------------------------------------------------------------
(* C14 *)

\* a request to POST /properties, POST /viewings or PATCH /properties/{id}
\* whose write was committed
CommittedWrite ==
    \/ \E data \in ApiPropertyPayloads : PostProperties(data)
    \/ \E data \in ApiViewingPayloads :
          PostViewings(data) /\ viewings' # viewings
    \/ \E id \in Ids(properties) : PatchProperties(id, FloorEdit)

\* C14: a request whose write was committed is answered 201 or 200, whether
\* or not the reconciliation pass that follows the write raises.
C14_WriteReportedAsSuccess ==
    [][CommittedWrite => response'.status \in {Ok, Created}]_vars

----------------------------------------------------------------------------
(* C21, C22: the unit conversions *)

\* C21: for n >= 0, ten_million_to_eok_che(n) is (n div 10, n mod 10) with
\* the che part in 0..9 and eok_che_to_ten_million gives n back from it; a
\* negative n gives 0.
C21_EokCheRoundTrip ==
    money.op = "eok_che" =>
        /\ money.mid = WDiv10(WMax0(money.n))
        /\ money.che = WMod10(WMax0(money.n))
        /\ money.che \in 0..9
        /\ money.out = WMax0(money.n)

\* C22: for m >= 0 in man-won, ten_man_to_man(man_to_ten_man(m)) is
\* m - (m mod 10), and for k >= 0, man_to_ten_man(ten_man_to_man(k)) is k.
C22_RentRoundTrip ==
    money.n.hi >= 0 =>
        /\ money.op = "man" =>
              money.out = W(money.n.hi, money.n.lo - (money.n.lo % 10))
        /\ money.op = "ten_man" => money.out = money.n

----------------------------------------------------------------------------
(* sheet_sync.py: what an export removes from a row.  A key and a text     *)
(* value are the sequences of their characters; None and "" are both <<>>  *)
(* (str(value or "") reads them alike).  The column names are lower case   *)
(* already, so key.lower() is the key.                                     *)

Digits == {"0", "1", "2", "3", "4", "5", "6", "7", "8", "9"}

\* "".join(ch for ch in text if ch.isdigit())
RECURSIVE OnlyDigits(_)
OnlyDigits(text) ==
    IF text = <<>> THEN <<>>
    ELSE IF Head(text) \in Digits THEN <<Head(text)>> \o OnlyDigits(Tail(text))
    ELSE OnlyDigits(Tail(text))

\* digits[-4:]
LastFour(digits) ==
    IF Len(digits) <= 4 THEN digits
    ELSE SubSeq(digits, Len(digits) - 3, Len(digits))

last4_phone(value) == LastFour(OnlyDigits(value))

\* token in k
Contains(k, token) ==
    \E i \in 1..(Len(k) - Len(token) + 1) :
        SubSeq(k, i, i + Len(token) - 1) = token

TokenName   == <<"n", "a", "m", "e">>
TokenPhone  == <<"p", "h", "o", "n", "e">>
TokenTel    == <<"t", "e", "l">>
TokenMobile == <<"m", "o", "b", "i", "l", "e">>

anonymize_value(key, value) ==
    IF Contains(key, TokenName) THEN <<>>
    ELSE IF \E token \in {TokenPhone, TokenTel, TokenMobile} :
                Contains(key, token)
         THEN last4_phone(value)
    ELSE value

anonymize_rows(rows) ==
    [i \in 1..Len(rows) |->
        [k \in DOMAIN rows[i] |-> anonymize_value(k, rows[i][k])]]

KeyComplexName  == <<"c","o","m","p","l","e","x","_","n","a","m","e">>
KeyCustomerName == <<"c","u","s","t","o","m","e","r","_","n","a","m","e">>
KeyOwnerName    == <<"o","w","n","e","r","_","n","a","m","e">>
KeyPhone        == <<"p","h","o","n","e">>
KeyOwnerPhone   == <<"o","w","n","e","r","_","p","h","o","n","e">>
KeyNote         == <<"n","o","t","e">>
KeyUnitType     == <<"u","n","i","t","_","t","y","p","e">>

ExportKeys == {KeyComplexName, KeyCustomerName, KeyOwnerName, KeyPhone,
               KeyOwnerPhone, KeyNote, KeyUnitType}

\* the rows a table may hold: complex "Xi", people "Ko" and "Im", numbers
\* written with and without dashes, too short, or missing
ExportRow(complex, customer, owner, phone, owner_phone, note) ==
    [k \in ExportKeys |->
        CASE k = KeyComplexName  -> complex
          [] k = KeyCustomerName -> customer
          [] k = KeyOwnerName    -> owner
          [] k = KeyPhone        -> phone
          [] k = KeyOwnerPhone   -> owner_phone
          [] k = KeyNote         -> note
          [] OTHER               -> <<"8", "4", "A">>]

ExportRows ==
    { ExportRow(c, n, o, ph, oph, memo) :
        c \in {<<>>, <<"X", "i">>}, n \in {<<>>, <<"K", "o">>},
        o \in {<<>>, <<"I", "m">>},
        ph \in {<<>>, <<"1", "2">>,
                <<"0","1","0","-","1","2","3","4","-","5","6","7","8">>},
        oph \in {<<>>, <<"0","1","0","9","8","7","6","5","4","3","2">>},
        memo \in {<<>>, <<"t", "e", "l", " ", "1">>} }

InitExport ==
    /\ properties = {} /\ photos = {} /\ viewings = {} /\ tasks = {}
    /\ nextId = [properties |-> 1, photos |-> 1, viewings |-> 1, tasks |-> 1]
    /\ now = T0
    /\ lastRet = NoOutcome /\ runs = 0 /\ armed = 0 /\ upsertHit = 0
    /\ passes = [t \in Threads |-> IdlePass]
    /\ desiredOut = NotComputed
    /\ customers = {} /\ response = NoResponse /\ matching = NotMatched
    /\ money = NoMoney
    /\ \E row \in ExportRows : exported = [done |-> FALSE, rows |-> <<row>>, out |-> <<>>]
    /\ listCall = NoCall
    /\ sync = SyncIdle
    /\ window = WindowIdle
    /\ audit = NoAudit

ExportFrame == Frame /\ UNCHANGED <<money, listCall, sync, window, audit>>

\* export_props = _anonymize_rows(visible_props), and the four other tables
AnonymizeRows ==
    /\ ~exported.done
    /\ exported' = [exported EXCEPT !.done = TRUE,
                                    !.out = anonymize_rows(exported.rows)]
    /\ ExportFrame

NextExport == AnonymizeRows

SpecExport == InitExport /\ [][NextExport]_vars

\* C23: an exported row has its personal names (customer_name, owner_name)
\* blank and its phone columns (phone, owner_phone) cut to their last four
\* digits, while complex_name and every other column is as it was.
C23_AnonymizeKeepsComplexName ==
    exported.done =>
        \A i \in 1..Len(exported.rows) :
            LET row == exported.rows[i]
                out == exported.out[i]
            IN  /\ DOMAIN out = DOMAIN row
                /\ out[KeyCustomerName] = <<>>
                /\ out[KeyOwnerName] = <<>>
                /\ out[KeyPhone] = LastFour(OnlyDigits(row[KeyPhone]))
                /\ out[KeyOwnerPhone] = LastFour(OnlyDigits(row[KeyOwnerPhone]))
                /\ \A k \in {KeyComplexName, KeyNote, KeyUnitType} :
                       out[k] = row[k]

\* C24: the API calls storage.list_tasks only with parameters it has (never
\* status=), so GET /tasks and POST /sync/export answer 200.
C24_ListTasksSupported ==
    listCall.path # "none" =>
        /\ listCall.kwargs \subseteq ListTasksParams
        /\ listCall.status = Ok

\* C25: when the passes of the handler threads interleave with each other
\* and with the handlers' writes, then once every pass has finished the OPEN
\* keyed auto-tasks are exactly the desired set of the store as it is: none
\* OPEN for a resolved condition, none DONE for one that holds.
C25_PassesConverge ==
    (\A t \in Threads : passes[t].pc = "idle") =>
        /\ \A r \in list_auto_tasks(tasks, TRUE) :
              Truthy(r.unique_key) =>
                 (r.status = "OPEN" <=> r.unique_key \in CurrentKeys)
        /\ \A k \in CurrentKeys :
              \E r \in RowsOf(tasks, k) : r.status = "OPEN"

\* the exports (_export_sync_core) in progress: the worker's and the
\* button's
ExportsInProgress ==
    (IF sync.worker \in {"started", "read"} THEN 1 ELSE 0)
    + (IF sync.button THEN 1 ELSE 0)

\* C26: at most one export is in progress at any time, whoever asked for it
\* (the debounce timer, the auto-sync loop or the button), and _sync_inflight
\* is true exactly while a worker runs or its completion callback is pending.
C26_OneExportAtATime ==
    /\ ExportsInProgress <= 1
    /\ sync.inflight <=> sync.worker # "none"

\* C27: every request_sync call is eventually followed by an export that
\* reads the store after that call.
C27_RequestLeadsToExport ==
    \A n \in 1..MaxRequests : (sync.calls = n) ~> (sync.seen >= n)

\* the hidden flag of the entity an undo payload names, in the given tables
HiddenOf(payload, props, custs) ==
    LET rows == IF payload.action = "PROPERTY_HIDE" THEN props ELSE custs
    IN  {r.hidden : r \in {x \in rows : x.id = payload.id}}

\* C28: undoing right after hiding (or showing) a property or a customer
\* leaves its hidden flag as it was before the toggle, and empties the undo
\* slot.
C28_UndoRestoresHidden ==
    [][(/\ window.undo.action \in {"PROPERTY_HIDE", "CUSTOMER_HIDE"}
        /\ window.last \in {"toggle_selected_property",
                            "toggle_selected_customer"}
        /\ window'.last = "undo_last_action")
       => /\ HiddenOf(window.undo, properties', customers')
               = {window.undo.before_hidden}
          /\ window'.undo = NoUndo]_vars

\* C29: update_property changes only the columns its payload has: when
\* the undo of a status change sends the status alone, every other column
\* of the row (repair_needed among them) keeps its value.
C29_UpdateKeepsAbsentFields ==
    [][(/\ window.undo.action = "PROPERTY_STATUS"
        /\ window'.last = "undo_last_action")
       => \A r \in properties :
             r.id = window.undo.id =>
                [r EXCEPT !.status = window.undo.before_status] \in properties']_vars

\* C30: the audit_log row a store write inserts records as after_json the
\* entity as that write committed it (the new row for a CREATE, the row with
\* the new status for set_task_status).
C30_AuditAfterIsCommitted ==
    audit.action # "none" =>
        audit.after = get_row(IF audit.entity_type = "PROPERTY" THEN properties
                              ELSE tasks,
                              audit.entity_id)

====
